---- MODULE Spec2Model ----
(***************************************************************************)
(* A model of the VL6180X register driver: the register codecs             *)
(* (src/src/registers/*.rs, src/src/types.rs) as operators, and the        *)
(* Device transaction engine (src/src/device.rs) as a state machine over   *)
(* a recording I2C transport.                                              *)
(***************************************************************************)
EXTENDS Integers, Sequences, FiniteSets, TLC

(***************************************************************************)
(* Results of the fallible codec functions.  Panic is the abort of an      *)
(* arithmetic overflow in a build with overflow checks.                    *)
(***************************************************************************)
Ok(v) == [tag |-> "Ok", val |-> v]
Err(e) == [tag |-> "Err", err |-> e]
Panic == [tag |-> "Panic"]

InvalidEnumValue(raw) == [kind |-> "InvalidEnumValue", raw |-> raw]
DurationTooShort == [kind |-> "DurationTooShort"]
DurationTooLong == [kind |-> "DurationTooLong"]
InvalidTimestamp == [kind |-> "InvalidTimestamp"]
\* The error type `()` of RangeResultStatus and ResultAlsStatus.
UnitError == [kind |-> "Unit"]

(***************************************************************************)
(* Integer helpers: the casts and bit operations the codecs use.           *)
(***************************************************************************)
Byte == 0..255
Pow2(n) == 2 ^ n
\* (b >> n) on a u8/u16
Shr(b, n) == b \div Pow2(n)
\* (b & (1 << n)) != 0
Bit(b, n) == (b \div Pow2(n)) % 2 = 1
\* i64::max / i64::min
Max(a, b) == IF a >= b THEN a ELSE b
Min(a, b) == IF a <= b THEN a ELSE b
\* Rust's integer division truncates towards zero.
TruncDiv(a, b) == IF a >= 0 THEN a \div b ELSE -((-a) \div b)
\* `x as u8` of an integer: keeps the low 8 bits.
AsU8(x) == x % 256
\* `x as u16` / `x as u8` of a float holding a whole number: saturates.
SatU16(x) == Max(0, Min(x, 65535))
SatU8(x) == Max(0, Min(x, 255))
\* u16::to_be_bytes / u16::from_be_bytes
ToBeBytes16(x) == <<x \div 256, x % 256>>
FromBeBytes16(hi, lo) == hi * 256 + lo

(***************************************************************************)
(* measurements::Length keeps its magnitude in metres, an f64:             *)
(* from_millimeters(x) divides x by 1000.0 and as_millimeters multiplies   *)
(* the metres by 1000.0, each operation rounding to the nearest f64 (53    *)
(* significant bits, ties to even).  A Length built from a whole number of *)
(* millimetres mm is held as [mm, exp, err]: its metres are exactly        *)
(* (mm * 2^exp + err) / (1000 * 2^exp), where err is what the rounding of  *)
(* the division added to the 53-bit quotient, times 1000.                  *)
(***************************************************************************)
METER_MILLIMETER_FACTOR == 1000

RECURSIVE BitLength(_)
BitLength(x) == IF x = 0 THEN 0 ELSE 1 + BitLength(x \div 2)

\* base^e mod m
RECURSIVE PowMod(_, _, _)
PowMod(base, e, m) == IF e = 0 THEN 1 % m ELSE (base * PowMod(base, e - 1, m)) % m

\* x * 2^t >= y, for t of either sign
ScaledAtLeast(x, t, y) == IF t >= 0 THEN x * Pow2(t) >= y ELSE x >= y * Pow2(-t)

\* The binary exponent of the quotient x / 1000.0: the k for which
\* floor(x * 2^k / 1000) has exactly 53 bits.
QuotientExp(x) ==
    LET L == BitLength(x)
    IN  IF ScaledAtLeast(x, 10 - L, METER_MILLIMETER_FACTOR) THEN 62 - L ELSE 63 - L

\* Length::from_millimeters(x as f64) for a whole x >= 0
Length_from_millimeters(x) ==
    IF x = 0 THEN [mm |-> 0, exp |-> 0, err |-> 0]
    ELSE LET k == QuotientExp(x)
             \* x * 2^k = 1000 * M + r, with M the 53-bit quotient
             r2 == (x * PowMod(2, k, 2 * METER_MILLIMETER_FACTOR))
                      % (2 * METER_MILLIMETER_FACTOR)
             r == r2 % METER_MILLIMETER_FACTOR
             M_odd == r2 >= METER_MILLIMETER_FACTOR
             round_up == \/ 2 * r > METER_MILLIMETER_FACTOR
                         \/ (2 * r = METER_MILLIMETER_FACTOR /\ M_odd)
         IN  [mm |-> x, exp |-> k,
              err |-> IF round_up THEN METER_MILLIMETER_FACTOR - r ELSE -r]

\* The whole part of length.as_millimeters().  The exact product is
\* mm + err / 2^exp; it rounds to the f64 just below mm when it lies more
\* than half a unit in the last place below mm (at a tie the even mantissa,
\* which is mm's, wins), and that unit is halved below a power of two.
Length_as_millimeters_whole(length) ==
    LET mm == length.mm
        L == BitLength(mm)
        power_of_two == mm = Pow2(L - 1)
        below == /\ length.err < 0
                 /\ (-length.err) * (IF power_of_two THEN 8 ELSE 4)
                        > Pow2(L + length.exp - 52)
    IN  IF mm = 0 THEN 0 ELSE IF below THEN mm - 1 ELSE mm

\* `Length::from_millimeters(x as f64).as_millimeters() as u16` / `as u8`:
\* the cast truncates towards zero and saturates, so any x <= 0 gives 0.
AsMillimetersU16(x) ==
    IF x <= 0 THEN 0
    ELSE SatU16(Length_as_millimeters_whole(Length_from_millimeters(x)))
AsMillimetersU8(x) ==
    IF x <= 0 THEN 0
    ELSE SatU8(Length_as_millimeters_whole(Length_from_millimeters(x)))

(***************************************************************************)
(* core::time::Duration::as_millis() is a u128.  It is held here as two    *)
(* limbs, hi * 2^64 + lo with lo < 2^64, so that the cast `as u64` (which  *)
(* keeps the low 64 bits) is exact: it is the low limb.                    *)
(***************************************************************************)
Millis(hi, lo) == [hi |-> hi, lo |-> lo]
DurationMs(ms) == Millis(0, ms)
AsU64(m) == m.lo

(***************************************************************************)
(* src/src/types.rs                                                        *)
(***************************************************************************)
AlsErrorCode_try_from(value) ==
    CASE value = 0 -> Ok("NoError")
      [] value = 1 -> Ok("Overflow")
      [] value = 2 -> Ok("Underflow")
      [] OTHER -> Err(InvalidEnumValue(value))

RangeErrorCodeName ==
    [v \in 0..15 |->
        CASE v = 0 -> "NoError"
          [] v = 1 -> "VcselContinuityTest"
          [] v = 2 -> "VcselWatchdogTest"
          [] v = 3 -> "VcselWatchdog"
          [] v = 4 -> "Pll1Lock"
          [] v = 5 -> "Pll2Lock"
          [] v = 6 -> "EarlyConvergenceEstimate"
          [] v = 7 -> "MaxConvergence"
          [] v = 8 -> "NoTargetIgnore"
          [] v = 11 -> "SignalToNoiseRatio"
          [] v = 12 -> "RawRangingUnderflow"
          [] v = 13 -> "RawRangingOverflow"
          [] v = 14 -> "RangingUnderflow"
          [] v = 15 -> "RangingOverflow"
          [] OTHER -> "undefined"]

RangeErrorCode_try_from(value) ==
    IF value \in (0..8) \cup (11..15)
    THEN Ok(RangeErrorCodeName[value])
    ELSE Err(InvalidEnumValue(value))

\* `code as u8` of a RangeErrorCode (#[repr(u8)])
RangeErrorCodeCode(c) == CHOOSE v \in (0..8) \cup (11..15) : RangeErrorCodeName[v] = c

AlsGainName ==
    <<"Gain20", "Gain10", "Gain5", "Gain2_5", "Gain1_67", "Gain1_25", "Gain1", "Gain40">>

\* `self.gain as u8`
AlsGainCode(g) == CHOOSE i \in 0..7 : AlsGainName[i + 1] = g

AlsGain_try_from(value) == Ok(AlsGainName[(value % 8) + 1])

InterruptModeName ==
    <<"Disabled", "LevelLow", "LevelHigh", "OutOfWindow", "NewSampleReady">>

\* `self.range_interrupt as u8`
InterruptModeCode(m) == CHOOSE i \in 0..4 : InterruptModeName[i + 1] = m

InterruptMode_try_from(value) ==
    IF value % 8 \in 0..4
    THEN Ok(InterruptModeName[(value % 8) + 1])
    ELSE Err(InvalidEnumValue(value))

\* `match value & 0b1`: both values of the bit have an arm, so the arm that
\* returns InvalidEnumValue is never taken.
GpioPolarity_try_from(value) ==
    CASE value % 2 = 0 -> Ok("ActiveLow")
      [] value % 2 = 1 -> Ok("ActiveHigh")
      [] OTHER -> Err(InvalidEnumValue(value))

GpioFunction_try_from(value) ==
    CASE value % 2 = 0 -> Ok("Off")
      [] value % 2 = 1 -> Ok("InterruptOutput")
      [] OTHER -> Err(InvalidEnumValue(value))

\* The enums of types.rs that implement TryFrom<u8>, and T::try_from.
TryFromTypes ==
    {"AlsErrorCode", "RangeErrorCode", "AlsGain", "GpioPolarity", "GpioFunction",
     "InterruptMode"}

try_from(T, value) ==
    CASE T = "AlsErrorCode" -> AlsErrorCode_try_from(value)
      [] T = "RangeErrorCode" -> RangeErrorCode_try_from(value)
      [] T = "AlsGain" -> AlsGain_try_from(value)
      [] T = "GpioPolarity" -> GpioPolarity_try_from(value)
      [] T = "GpioFunction" -> GpioFunction_try_from(value)
      [] T = "InterruptMode" -> InterruptMode_try_from(value)

\* Result::unwrap_or
UnwrapOr(r, d) == IF r.tag = "Ok" THEN r.val ELSE d

(***************************************************************************)
(* src/src/registers/identification.rs                                     *)
(***************************************************************************)
ModelId_from_bytes(bytes) ==
    Ok(IF bytes[1] = 180 THEN [model |-> "VL6180X", unknown |-> 0]
                         ELSE [model |-> "Unknown", unknown |-> bytes[1]])

ModelRevision_from_bytes(bytes) == Ok([major |-> bytes[1], minor |-> bytes[2]])

ModuleRevision_from_bytes(bytes) == Ok([major |-> bytes[1], minor |-> bytes[2]])

\* jiff's civil calendar, as DateTime::new validates it.
IsLeapYear(y) == (y % 4 = 0) /\ ((y % 100 # 0) \/ (y % 400 = 0))
DaysInMonth(y, m) ==
    CASE m \in {1, 3, 5, 7, 8, 10, 12} -> 31
      [] m \in {4, 6, 9, 11} -> 30
      [] OTHER -> IF IsLeapYear(y) THEN 29 ELSE 28

DateTime_new(year, month, day, hour, minute, second) ==
    IF /\ month \in 1..12
       /\ day >= 1
       /\ day <= DaysInMonth(year, month)
       /\ hour \in 0..23
       /\ minute \in 0..59
       /\ second \in 0..59
    THEN Ok([year |-> year, month |-> month, day |-> day,
             hour |-> hour, minute |-> minute, second |-> second])
    ELSE Err(InvalidTimestamp)

\* A variant that takes the tick count for the seconds since midnight.
ModuleTimestamp_from_bytes_undoubled(bytes, overflow_checks) ==
    LET date_hi == bytes[1]
        date_lo == bytes[2]
        time_value == bytes[3] * 256 + bytes[4]
        year == 2010 + Shr(date_hi, 4)
        month == date_hi % 16
        day == Shr(date_lo, 3)
        seconds_since_midnight == time_value
        hour == seconds_since_midnight \div 3600
        minute == (seconds_since_midnight % 3600) \div 60
        second == seconds_since_midnight % 60
    IN  DateTime_new(year, month, day, hour, minute, second)

\* overflow_checks: whether the build aborts on arithmetic overflow (a debug
\* build) or wraps (a release build).
ModuleTimestamp_from_bytes(bytes, overflow_checks) ==
    LET date_hi == bytes[1]
        date_lo == bytes[2]
        time_value == bytes[3] * 256 + bytes[4]
        year == 2010 + Shr(date_hi, 4)
        month == date_hi % 16
        day == Shr(date_lo, 3)
        seconds_since_midnight == (time_value * 2) % 65536
        hour == seconds_since_midnight \div 3600
        minute == (seconds_since_midnight % 3600) \div 60
        second == seconds_since_midnight % 60
    IN  IF time_value * 2 > 65535 /\ overflow_checks
        THEN Panic
        ELSE DateTime_new(year, month, day, hour, minute, second)

(***************************************************************************)
(* src/src/registers/system.rs                                             *)
(***************************************************************************)
ModeGpio0_from_bytes(bytes) ==
    Ok([function |-> IF Bit(bytes[1], 4) THEN "InterruptOutput" ELSE "Off",
        polarity |-> IF Bit(bytes[1], 0) THEN "ActiveHigh" ELSE "ActiveLow"])

ModeGpio0_to_bytes(v) ==
    Ok(<<(IF v.function = "InterruptOutput" THEN 16 ELSE 0)
         + (IF v.polarity = "ActiveHigh" THEN 1 ELSE 0)>>)

ModeGpio1_from_bytes(bytes) ==
    Ok([function |-> IF Bit(bytes[1], 4) THEN "InterruptOutput" ELSE "Off",
        polarity |-> IF Bit(bytes[1], 0) THEN "ActiveHigh" ELSE "ActiveLow"])

ModeGpio1_to_bytes(v) ==
    Ok(<<(IF v.function = "InterruptOutput" THEN 16 ELSE 0)
         + (IF v.polarity = "ActiveHigh" THEN 1 ELSE 0)>>)

HistoryCtrl_from_bytes(bytes) ==
    Ok([enable |-> Bit(bytes[1], 0), clear |-> Bit(bytes[1], 1)])

\* A variant that sets the two flags' bits the other way round.
HistoryCtrl_to_bytes_swapped(v) ==
    Ok(<<(IF v.enable THEN 2 ELSE 0) + (IF v.clear THEN 1 ELSE 0)>>)

HistoryCtrl_to_bytes(v) ==
    Ok(<<(IF v.enable THEN 1 ELSE 0) + (IF v.clear THEN 2 ELSE 0)>>)

\* A variant that hands on the error of an undefined mode value.
InterruptConfigGpio_from_bytes_strict(bytes) ==
    LET range_mode == Shr(bytes[1], 3) % 8
        als_mode == bytes[1] % 8
        range_interrupt == InterruptMode_try_from(range_mode)
        als_interrupt == InterruptMode_try_from(als_mode)
    IN  IF range_interrupt.tag # "Ok" THEN range_interrupt
        ELSE IF als_interrupt.tag # "Ok" THEN als_interrupt
        ELSE Ok([range_interrupt |-> range_interrupt.val,
                 als_interrupt |-> als_interrupt.val])

InterruptConfigGpio_from_bytes(bytes) ==
    LET range_mode == Shr(bytes[1], 3) % 8
        als_mode == bytes[1] % 8
    IN  Ok([range_interrupt |-> UnwrapOr(InterruptMode_try_from(range_mode), "Disabled"),
            als_interrupt |-> UnwrapOr(InterruptMode_try_from(als_mode), "Disabled")])

InterruptConfigGpio_to_bytes(v) ==
    Ok(<<InterruptModeCode(v.range_interrupt) * 8 + InterruptModeCode(v.als_interrupt)>>)

InterruptClear_from_bytes(bytes) ==
    Ok([clear_range |-> Bit(bytes[1], 0),
        clear_als |-> Bit(bytes[1], 1),
        clear_error |-> Bit(bytes[1], 2)])

InterruptClear_to_bytes(v) ==
    Ok(<<(IF v.clear_range THEN 1 ELSE 0)
         + (IF v.clear_als THEN 2 ELSE 0)
         + (IF v.clear_error THEN 4 ELSE 0)>>)

FreshOutOfReset_from_bytes(bytes) == Ok([fresh |-> Bit(bytes[1], 0)])

FreshOutOfReset_to_bytes(v) == Ok(<<IF v.fresh THEN 1 ELSE 0>>)

GroupedParameterHold_from_bytes(bytes) == Ok([hold |-> Bit(bytes[1], 0)])

GroupedParameterHold_to_bytes(v) == Ok(<<IF v.hold THEN 1 ELSE 0>>)

(***************************************************************************)
(* src/src/registers/range.rs                                              *)
(* A Length is held as the whole number of millimetres it was built from   *)
(* (see Length_from_millimeters); a jiff Span as the value of its          *)
(* milliseconds unit, an i64.                                              *)
(***************************************************************************)
\* A variant that rejects a byte that names no mode.
RangeStart_from_bytes_strict(bytes) ==
    CASE bytes[1] = 1 -> Ok([mode |-> "SingleShot"])
      [] bytes[1] = 3 -> Ok([mode |-> "Continuous"])
      [] OTHER -> Err(InvalidEnumValue(bytes[1]))

RangeStart_from_bytes(bytes) ==
    Ok([mode |-> CASE bytes[1] = 1 -> "SingleShot"
                   [] bytes[1] = 3 -> "Continuous"
                   [] OTHER -> "SingleShot"])

RangeStart_to_bytes(v) == Ok(<<IF v.mode = "SingleShot" THEN 1 ELSE 3>>)

RangeThresholds_from_bytes(bytes) ==
    Ok([high_mm |-> FromBeBytes16(bytes[1], bytes[2]),
        low_mm |-> FromBeBytes16(bytes[3], bytes[4])])

\* A variant that sends the high threshold alone.
RangeThresholds_to_bytes_high_only(v) ==
    Ok(ToBeBytes16(AsMillimetersU16(v.high_mm)))

RangeThresholds_to_bytes(v) ==
    Ok(ToBeBytes16(AsMillimetersU16(v.high_mm)) \o ToBeBytes16(AsMillimetersU16(v.low_mm)))

RangeIntermeasurementPeriod_from_bytes(bytes) ==
    Ok([span_ms |-> (bytes[1] + 1) * 10])

RangeIntermeasurementPeriod_to_bytes(v) ==
    LET total_ms == v.span_ms
    IN  Ok(<<AsU8(Min(Max(TruncDiv(total_ms, 10) - 1, 0), 255))>>)

RangeMaxConvergenceTime_from_bytes(bytes) == Ok([span_ms |-> bytes[1]])

\* A variant whose lower clamp is 0 ms.
RangeMaxConvergenceTime_to_bytes_from_zero(v) ==
    Ok(<<AsU8(Min(Max(v.span_ms, 0), 63))>>)

RangeMaxConvergenceTime_to_bytes(v) ==
    Ok(<<AsU8(Min(Max(v.span_ms, 1), 63))>>)

RangeCrosstalkCompensationRate_from_bytes(bytes) ==
    Ok([rate |-> FromBeBytes16(bytes[1], bytes[2])])

RangeCrosstalkCompensationRate_to_bytes(v) == Ok(ToBeBytes16(v.rate))

RangeCrosstalkValidHeight_from_bytes(bytes) == Ok([height_mm |-> bytes[1]])

RangeCrosstalkValidHeight_to_bytes(v) == Ok(<<AsMillimetersU8(v.height_mm)>>)

RangeEarlyConvergenceEstimate_from_bytes(bytes) ==
    Ok([estimate |-> FromBeBytes16(bytes[1], bytes[2])])

RangeEarlyConvergenceEstimate_to_bytes(v) == Ok(ToBeBytes16(v.estimate))

RangeCheckEnables_from_bytes(bytes) ==
    Ok([enable_snr_check |-> Bit(bytes[1], 0),
        enable_range_check |-> Bit(bytes[1], 1),
        enable_early_convergence_check |-> Bit(bytes[1], 2)])

RangeCheckEnables_to_bytes(v) ==
    Ok(<<(IF v.enable_snr_check THEN 1 ELSE 0)
         + (IF v.enable_range_check THEN 2 ELSE 0)
         + (IF v.enable_early_convergence_check THEN 4 ELSE 0)>>)

RangeVhvRecalibrate_from_bytes(bytes) == Ok([recalibrate |-> bytes[1]])

RangeVhvRecalibrate_to_bytes(v) == Ok(<<v.recalibrate>>)

RangeVhvRepeatRate_from_bytes(bytes) == Ok([repeat_rate |-> bytes[1]])

RangeVhvRepeatRate_to_bytes(v) == Ok(<<v.repeat_rate>>)

(***************************************************************************)
(* src/src/registers/als.rs                                                *)
(* A Luminance is held as its whole number of lux counts; a Duration as    *)
(* its as_millis() value (see Millis).                                     *)
(***************************************************************************)
AlsStart_from_bytes(bytes) ==
    Ok([mode |-> CASE bytes[1] = 1 -> "SingleShot"
                   [] bytes[1] = 3 -> "Continuous"
                   [] OTHER -> "SingleShot"])

AlsStart_to_bytes(v) == Ok(<<IF v.mode = "SingleShot" THEN 1 ELSE 3>>)

AlsThresholds_from_bytes(bytes) ==
    Ok([high_lux |-> FromBeBytes16(bytes[1], bytes[2]),
        low_lux |-> FromBeBytes16(bytes[3], bytes[4])])

AlsThresholds_to_bytes(v) ==
    Ok(ToBeBytes16(SatU16(v.high_lux)) \o ToBeBytes16(SatU16(v.low_lux)))

AlsIntermeasurementPeriod_from_bytes(bytes) ==
    Ok([period |-> DurationMs((bytes[1] + 1) * 10)])

\* A variant that drops the half unit added before the division.
AlsIntermeasurementPeriod_to_bytes_truncating(v) ==
    LET total_ms == AsU64(v.period)
    IN  IF total_ms < 10 THEN Err(DurationTooShort)
        ELSE IF total_ms > 2560 THEN Err(DurationTooLong)
        ELSE Ok(<<AsU8((total_ms \div 10) - 1)>>)

AlsIntermeasurementPeriod_to_bytes(v) ==
    LET total_ms == AsU64(v.period)
    IN  IF total_ms < 10 THEN Err(DurationTooShort)
        ELSE IF total_ms > 2560 THEN Err(DurationTooLong)
        ELSE Ok(<<AsU8(((total_ms + 5) \div 10) - 1)>>)

AlsAnalogueGain_from_bytes(bytes) ==
    LET gain == AlsGain_try_from(bytes[1])
    IN  IF gain.tag = "Ok" THEN Ok([gain |-> gain.val]) ELSE gain

AlsAnalogueGain_to_bytes(v) == Ok(<<AlsGainCode(v.gain)>>)

AlsIntegrationPeriod_from_bytes(bytes) == Ok([period |-> DurationMs(bytes[1])])

AlsIntegrationPeriod_to_bytes(v) ==
    LET ms == AsU64(v.period)
    IN  IF ms < 1 THEN Err(DurationTooShort)
        ELSE IF ms > 255 THEN Err(DurationTooLong)
        ELSE Ok(<<AsU8(ms)>>)

(***************************************************************************)
(* src/src/registers/result.rs                                             *)
(***************************************************************************)
RangeResultValue_from_bytes(bytes) == Ok([distance_mm |-> bytes[1]])

\* A variant that takes the error code from the byte without the shift.
RangeResultStatus_from_bytes_unshifted(bytes) ==
    LET error_code == RangeErrorCode_try_from(bytes[1] % 16)
    IN  IF error_code.tag = "Ok"
        THEN Ok([error_code |-> error_code.val, device_ready |-> Bit(bytes[1], 0)])
        ELSE Err(UnitError)

RangeResultStatus_from_bytes(bytes) ==
    LET error_code == RangeErrorCode_try_from(Shr(bytes[1], 4) % 16)
    IN  IF error_code.tag = "Ok"
        THEN Ok([error_code |-> error_code.val, device_ready |-> Bit(bytes[1], 0)])
        ELSE Err(UnitError)

ResultInterruptStatusGpio_from_bytes(bytes) ==
    Ok([range_interrupt |-> Bit(bytes[1], 2),
        als_interrupt |-> Bit(bytes[1], 3),
        error_interrupt |-> Bit(bytes[1], 4)])

AlsResultValue_from_bytes(bytes) ==
    Ok([raw_count |-> FromBeBytes16(bytes[1], bytes[2])])

ResultAlsStatus_from_bytes(bytes) ==
    LET error_code == AlsErrorCode_try_from(Shr(bytes[1], 4) % 16)
    IN  IF error_code.tag = "Ok"
        THEN Ok([als_error_code |-> error_code.val, device_ready |-> Bit(bytes[1], 0)])
        ELSE Err(UnitError)

\* u32::from_be_bytes, kept as its two 16-bit halves (time_ms = hi * 65536 + lo).
RangeResultConvergenceTime_from_bytes(bytes) ==
    Ok([time_ms_hi |-> FromBeBytes16(bytes[1], bytes[2]),
        time_ms_lo |-> FromBeBytes16(bytes[3], bytes[4])])

(***************************************************************************)
(* Register identity: the #[register(..)] address of each register type    *)
(* and the length of the `type Array` of its FromByteArray / ToByteArray.  *)
(***************************************************************************)
ReadOnlyRegisters ==
    {"ModelId", "ModelRevision", "ModuleRevision", "ModuleTimestamp",
     "RangeResultValue", "RangeResultStatus", "ResultInterruptStatusGpio",
     "AlsResultValue", "ResultAlsStatus", "RangeResultConvergenceTime"}

\* The types deriving WritableRegister (all of them derive ReadableRegister too).
WritableRegisters ==
    {"ModeGpio0", "ModeGpio1", "HistoryCtrl", "InterruptConfigGpio",
     "InterruptClear", "FreshOutOfReset", "GroupedParameterHold",
     "RangeStart", "RangeThresholds", "RangeIntermeasurementPeriod",
     "RangeMaxConvergenceTime", "RangeCrosstalkCompensationRate",
     "RangeCrosstalkValidHeight", "RangeEarlyConvergenceEstimate",
     "RangeCheckEnables", "RangeVhvRecalibrate", "RangeVhvRepeatRate",
     "AlsStart", "AlsThresholds", "AlsIntermeasurementPeriod",
     "AlsAnalogueGain", "AlsIntegrationPeriod"}

\* The types deriving ReadableRegister.
ReadableRegisters == ReadOnlyRegisters \cup WritableRegisters

Registers == ReadableRegisters

\* R::id()
Id(R) ==
    CASE R = "ModelId" -> 0
      [] R = "ModelRevision" -> 1
      [] R = "ModuleRevision" -> 3
      [] R = "ModuleTimestamp" -> 6
      [] R = "ModeGpio0" -> 16
      [] R = "ModeGpio1" -> 17
      [] R = "HistoryCtrl" -> 18
      [] R = "InterruptConfigGpio" -> 20
      [] R = "InterruptClear" -> 21
      [] R = "FreshOutOfReset" -> 22
      [] R = "GroupedParameterHold" -> 23
      [] R = "RangeStart" -> 24
      [] R = "RangeThresholds" -> 25
      [] R = "RangeIntermeasurementPeriod" -> 27
      [] R = "RangeMaxConvergenceTime" -> 28
      [] R = "RangeCrosstalkCompensationRate" -> 30
      [] R = "RangeCrosstalkValidHeight" -> 33
      [] R = "RangeEarlyConvergenceEstimate" -> 34
      [] R = "RangeCheckEnables" -> 45
      [] R = "RangeVhvRecalibrate" -> 46
      [] R = "RangeVhvRepeatRate" -> 49
      [] R = "AlsStart" -> 56
      [] R = "AlsThresholds" -> 58
      [] R = "AlsIntermeasurementPeriod" -> 62
      [] R = "AlsAnalogueGain" -> 63
      [] R = "AlsIntegrationPeriod" -> 64
      [] R = "RangeResultStatus" -> 77
      [] R = "ResultAlsStatus" -> 78
      [] R = "ResultInterruptStatusGpio" -> 79
      [] R = "AlsResultValue" -> 80
      [] R = "RangeResultValue" -> 98
      [] R = "RangeResultConvergenceTime" -> 99

\* <R as FromByteArray>::Array, as its length
FromArrayLen(R) ==
    CASE R \in {"ModuleTimestamp", "RangeThresholds", "AlsThresholds",
                "RangeResultConvergenceTime"} -> 4
      [] R \in {"ModelRevision", "ModuleRevision", "RangeCrosstalkCompensationRate",
                "RangeEarlyConvergenceEstimate", "AlsResultValue"} -> 2
      [] OTHER -> 1

\* <R as ToByteArray>::Array, as its length
ToArrayLen(R) ==
    CASE R \in {"RangeThresholds", "AlsThresholds"} -> 4
      [] R \in {"RangeCrosstalkCompensationRate", "RangeEarlyConvergenceEstimate"} -> 2
      [] OTHER -> 1

\* R::from_bytes
from_bytes(R, bytes, overflow_checks) ==
    CASE R = "ModelId" -> ModelId_from_bytes(bytes)
      [] R = "ModelRevision" -> ModelRevision_from_bytes(bytes)
      [] R = "ModuleRevision" -> ModuleRevision_from_bytes(bytes)
      [] R = "ModuleTimestamp" -> ModuleTimestamp_from_bytes(bytes, overflow_checks)
      [] R = "ModeGpio0" -> ModeGpio0_from_bytes(bytes)
      [] R = "ModeGpio1" -> ModeGpio1_from_bytes(bytes)
      [] R = "HistoryCtrl" -> HistoryCtrl_from_bytes(bytes)
      [] R = "InterruptConfigGpio" -> InterruptConfigGpio_from_bytes(bytes)
      [] R = "InterruptClear" -> InterruptClear_from_bytes(bytes)
      [] R = "FreshOutOfReset" -> FreshOutOfReset_from_bytes(bytes)
      [] R = "GroupedParameterHold" -> GroupedParameterHold_from_bytes(bytes)
      [] R = "RangeStart" -> RangeStart_from_bytes(bytes)
      [] R = "RangeThresholds" -> RangeThresholds_from_bytes(bytes)
      [] R = "RangeIntermeasurementPeriod" -> RangeIntermeasurementPeriod_from_bytes(bytes)
      [] R = "RangeMaxConvergenceTime" -> RangeMaxConvergenceTime_from_bytes(bytes)
      [] R = "RangeCrosstalkCompensationRate" ->
            RangeCrosstalkCompensationRate_from_bytes(bytes)
      [] R = "RangeCrosstalkValidHeight" -> RangeCrosstalkValidHeight_from_bytes(bytes)
      [] R = "RangeEarlyConvergenceEstimate" ->
            RangeEarlyConvergenceEstimate_from_bytes(bytes)
      [] R = "RangeCheckEnables" -> RangeCheckEnables_from_bytes(bytes)
      [] R = "RangeVhvRecalibrate" -> RangeVhvRecalibrate_from_bytes(bytes)
      [] R = "RangeVhvRepeatRate" -> RangeVhvRepeatRate_from_bytes(bytes)
      [] R = "AlsStart" -> AlsStart_from_bytes(bytes)
      [] R = "AlsThresholds" -> AlsThresholds_from_bytes(bytes)
      [] R = "AlsIntermeasurementPeriod" -> AlsIntermeasurementPeriod_from_bytes(bytes)
      [] R = "AlsAnalogueGain" -> AlsAnalogueGain_from_bytes(bytes)
      [] R = "AlsIntegrationPeriod" -> AlsIntegrationPeriod_from_bytes(bytes)
      [] R = "RangeResultValue" -> RangeResultValue_from_bytes(bytes)
      [] R = "RangeResultStatus" -> RangeResultStatus_from_bytes(bytes)
      [] R = "ResultInterruptStatusGpio" -> ResultInterruptStatusGpio_from_bytes(bytes)
      [] R = "AlsResultValue" -> AlsResultValue_from_bytes(bytes)
      [] R = "ResultAlsStatus" -> ResultAlsStatus_from_bytes(bytes)
      [] R = "RangeResultConvergenceTime" -> RangeResultConvergenceTime_from_bytes(bytes)

\* register.to_bytes()
to_bytes(R, v) ==
    CASE R = "ModeGpio0" -> ModeGpio0_to_bytes(v)
      [] R = "ModeGpio1" -> ModeGpio1_to_bytes(v)
      [] R = "HistoryCtrl" -> HistoryCtrl_to_bytes(v)
      [] R = "InterruptConfigGpio" -> InterruptConfigGpio_to_bytes(v)
      [] R = "InterruptClear" -> InterruptClear_to_bytes(v)
      [] R = "FreshOutOfReset" -> FreshOutOfReset_to_bytes(v)
      [] R = "GroupedParameterHold" -> GroupedParameterHold_to_bytes(v)
      [] R = "RangeStart" -> RangeStart_to_bytes(v)
      [] R = "RangeThresholds" -> RangeThresholds_to_bytes(v)
      [] R = "RangeIntermeasurementPeriod" -> RangeIntermeasurementPeriod_to_bytes(v)
      [] R = "RangeMaxConvergenceTime" -> RangeMaxConvergenceTime_to_bytes(v)
      [] R = "RangeCrosstalkCompensationRate" ->
            RangeCrosstalkCompensationRate_to_bytes(v)
      [] R = "RangeCrosstalkValidHeight" -> RangeCrosstalkValidHeight_to_bytes(v)
      [] R = "RangeEarlyConvergenceEstimate" ->
            RangeEarlyConvergenceEstimate_to_bytes(v)
      [] R = "RangeCheckEnables" -> RangeCheckEnables_to_bytes(v)
      [] R = "RangeVhvRecalibrate" -> RangeVhvRecalibrate_to_bytes(v)
      [] R = "RangeVhvRepeatRate" -> RangeVhvRepeatRate_to_bytes(v)
      [] R = "AlsStart" -> AlsStart_to_bytes(v)
      [] R = "AlsThresholds" -> AlsThresholds_to_bytes(v)
      [] R = "AlsIntermeasurementPeriod" -> AlsIntermeasurementPeriod_to_bytes(v)
      [] R = "AlsAnalogueGain" -> AlsAnalogueGain_to_bytes(v)
      [] R = "AlsIntegrationPeriod" -> AlsIntegrationPeriod_to_bytes(v)

(***************************************************************************)
(* The I2C transport (embedded_hal::i2c::I2c and its async twin), as the   *)
(* Device sees it: a handle whose observable state is the log of the calls *)
(* made on it.  What the bus answers is the environment's choice.          *)
(***************************************************************************)
Write(bytes) == [kind |-> "Write", bytes |-> bytes]

\* i2c.write_read(address, &out, &mut buf): `outcome` is what the bus does,
\* [ok |-> BOOLEAN, buf |-> the buffer's content when the call returns].
write_read(i2c, address, out, buf, outcome) ==
    [i2c |-> Append(i2c, [op |-> "write_read", address |-> address,
                          out |-> out, read_len |-> Len(buf)]),
     ok |-> outcome.ok,
     buf |-> outcome.buf]

\* i2c.transaction(address, &mut [operations]): `outcome` is "ok", or
\* "fail_frame1" / "fail_frame2" for a failure on the first / second operation.
transaction(i2c, address, operations, outcome) ==
    [i2c |-> Append(i2c, [op |-> "transaction", address |-> address,
                          operations |-> operations]),
     ok |-> (outcome = "ok")]

(***************************************************************************)
(* src/src/device.rs                                                       *)
(***************************************************************************)
DEFAULT_ADDRESS == 41

\* regiface::errors::Error, and the Ok(()) of a write
BusError == Err("BusError")
SerializationError == Err("SerializationError")
DeserializationError == Err("DeserializationError")
OkUnit == Ok([unit |-> TRUE])

\* R::Array::new()
ArrayNew(n) == [i \in 1..n |-> 0]

\* A variant that drops the address it is given.
new_with_address_default(i2c, address) == [i2c |-> i2c, address |-> DEFAULT_ADDRESS]

\* Device::new_with_address
new_with_address(i2c, address) == [i2c |-> i2c, address |-> address]

\* Device::new
new(i2c) == new_with_address(i2c, DEFAULT_ADDRESS)

\* A variant that hands back a reset handle.
release_reset(self) == <<>>

\* Device::release
release(self) == self.i2c

\* .map_err(|_| RegifaceError::DeserializationError) on R::from_bytes(buf)
MapDeserialization(d) == IF d.tag = "Err" THEN DeserializationError ELSE d

\* A variant that decodes the buffer as it was allocated, not as the bus filled it.
read_register_stale_buf(self, R, outcome, overflow_checks) ==
    LET reg_addr == ToBeBytes16(Id(R))
        buf == ArrayNew(FromArrayLen(R))
        x == write_read(self.i2c, self.address, reg_addr, buf, outcome)
    IN  IF ~x.ok
        THEN [i2c |-> x.i2c, result |-> BusError, decoded |-> FALSE]
        ELSE [i2c |-> x.i2c,
              result |-> MapDeserialization(from_bytes(R, buf, overflow_checks)),
              decoded |-> TRUE]

\* A variant that decodes the buffer before it looks at the bus result.
read_register_decode_first(self, R, outcome, overflow_checks) ==
    LET reg_addr == ToBeBytes16(Id(R))
        buf == ArrayNew(FromArrayLen(R))
        x == write_read(self.i2c, self.address, reg_addr, buf, outcome)
        d == MapDeserialization(from_bytes(R, x.buf, overflow_checks))
    IN  IF d.tag = "Err"
        THEN [i2c |-> x.i2c, result |-> d, decoded |-> TRUE]
        ELSE IF ~x.ok
        THEN [i2c |-> x.i2c, result |-> BusError, decoded |-> TRUE]
        ELSE [i2c |-> x.i2c, result |-> d, decoded |-> TRUE]

\* A variant that tries a failed exchange a second time.
read_register_retry(self, R, outcome, overflow_checks) ==
    LET reg_addr == ToBeBytes16(Id(R))
        buf == ArrayNew(FromArrayLen(R))
        x == write_read(self.i2c, self.address, reg_addr, buf, outcome)
        y == write_read(x.i2c, self.address, reg_addr, buf, outcome)
    IN  IF ~x.ok
        THEN [i2c |-> y.i2c, result |-> BusError, decoded |-> FALSE]
        ELSE [i2c |-> x.i2c,
              result |-> MapDeserialization(from_bytes(R, x.buf, overflow_checks)),
              decoded |-> TRUE]

\* A variant that skips the exchange for a register this handle has been
\* asked for before, and decodes an empty buffer.
read_register_cached(self, R, outcome, overflow_checks) ==
    LET reg_addr == ToBeBytes16(Id(R))
        buf == ArrayNew(FromArrayLen(R))
        x == write_read(self.i2c, self.address, reg_addr, buf, outcome)
        seen == \E i \in 1..Len(self.i2c) :
                    /\ self.i2c[i].op = "write_read"
                    /\ self.i2c[i].address = self.address
                    /\ self.i2c[i].out = reg_addr
    IN  IF seen
        THEN [i2c |-> self.i2c,
              result |-> MapDeserialization(from_bytes(R, buf, overflow_checks)),
              decoded |-> TRUE]
        ELSE IF ~x.ok
        THEN [i2c |-> x.i2c, result |-> BusError, decoded |-> FALSE]
        ELSE [i2c |-> x.i2c,
              result |-> MapDeserialization(from_bytes(R, x.buf, overflow_checks)),
              decoded |-> TRUE]

\* Device::read_register: the new state of self.i2c, the value returned and
\* whether R::from_bytes was reached.
read_register(self, R, outcome, overflow_checks) ==
    LET reg_addr == ToBeBytes16(Id(R))
        buf == ArrayNew(FromArrayLen(R))
        x == write_read(self.i2c, self.address, reg_addr, buf, outcome)
    IN  IF ~x.ok
        THEN [i2c |-> x.i2c, result |-> BusError, decoded |-> FALSE]
        ELSE [i2c |-> x.i2c,
              result |-> MapDeserialization(from_bytes(R, x.buf, overflow_checks)),
              decoded |-> TRUE]

\* A variant that sends the address frame before it encodes the value.
write_register_encode_late(self, R, register, outcome) ==
    LET reg_addr == ToBeBytes16(Id(R))
        value == to_bytes(R, register)
        a == transaction(self.i2c, self.address, <<Write(reg_addr)>>, outcome)
    IN  IF value.tag # "Ok"
        THEN [i2c |-> a.i2c, result |-> SerializationError]
        ELSE LET x == transaction(self.i2c, self.address,
                                  <<Write(reg_addr), Write(value.val)>>, outcome)
             IN  [i2c |-> x.i2c, result |-> IF x.ok THEN OkUnit ELSE BusError]

\* A variant that sends the two frames as two transactions.
write_register_split(self, R, register, outcome) ==
    LET reg_addr == ToBeBytes16(Id(R))
        value == to_bytes(R, register)
    IN  IF value.tag # "Ok"
        THEN [i2c |-> self.i2c, result |-> SerializationError]
        ELSE LET a == transaction(self.i2c, self.address, <<Write(reg_addr)>>, outcome)
                 x == transaction(a.i2c, self.address, <<Write(value.val)>>, outcome)
             IN  [i2c |-> x.i2c, result |-> IF x.ok THEN OkUnit ELSE BusError]

\* A variant that sends the address frame least-significant byte first.
write_register_le(self, R, register, outcome) ==
    LET reg_addr == <<Id(R) % 256, Id(R) \div 256>>
        value == to_bytes(R, register)
    IN  IF value.tag # "Ok"
        THEN [i2c |-> self.i2c, result |-> SerializationError]
        ELSE LET x == transaction(self.i2c, self.address,
                                  <<Write(reg_addr), Write(value.val)>>, outcome)
             IN  [i2c |-> x.i2c, result |-> IF x.ok THEN OkUnit ELSE BusError]

\* Device::write_register
write_register(self, R, register, outcome) ==
    LET reg_addr == ToBeBytes16(Id(R))
        value == to_bytes(R, register)
    IN  IF value.tag # "Ok"
        THEN [i2c |-> self.i2c, result |-> SerializationError]
        ELSE LET x == transaction(self.i2c, self.address,
                                  <<Write(reg_addr), Write(value.val)>>, outcome)
             IN  [i2c |-> x.i2c, result |-> IF x.ok THEN OkUnit ELSE BusError]

\* Device::read_register_async up to its `.await`: the exchange is handed to
\* the transport and the call awaits the transport's future.  Whether the call
\* suspends there, and how often, is the transport's doing (see the actions).
read_register_async_call(self, R) ==
    LET reg_addr == ToBeBytes16(Id(R))
        buf == ArrayNew(FromArrayLen(R))
    IN  [i2c |-> Append(self.i2c, [op |-> "write_read", address |-> self.address,
                                   out |-> reg_addr, read_len |-> Len(buf)]),
         awaits |-> TRUE]

\* A variant that reports a payload that does not decode as a bus failure.
read_register_async_resume_bus_error(R, outcome, overflow_checks) ==
    IF ~outcome.ok
    THEN [result |-> BusError, decoded |-> FALSE]
    ELSE LET d == from_bytes(R, outcome.buf, overflow_checks)
         IN  [result |-> IF d.tag = "Err" THEN BusError ELSE d, decoded |-> TRUE]

\* Device::read_register_async from its `.await` on.
read_register_async_resume(R, outcome, overflow_checks) ==
    IF ~outcome.ok
    THEN [result |-> BusError, decoded |-> FALSE]
    ELSE [result |-> MapDeserialization(from_bytes(R, outcome.buf, overflow_checks)),
          decoded |-> TRUE]

\* A variant that hands the address frame to the transport, and awaits it,
\* before it encodes the value.
write_register_async_call_suspend_first(self, R, register) ==
    LET reg_addr == ToBeBytes16(Id(R))
        value == to_bytes(R, register)
    IN  IF value.tag # "Ok"
        THEN [i2c |-> Append(self.i2c,
                             [op |-> "transaction", address |-> self.address,
                              operations |-> <<Write(reg_addr)>>]),
              awaits |-> TRUE]
        ELSE [i2c |-> Append(self.i2c,
                             [op |-> "transaction", address |-> self.address,
                              operations |-> <<Write(reg_addr), Write(value.val)>>]),
              awaits |-> TRUE]

\* Device::write_register_async up to its `.await`, or to its early return.
write_register_async_call(self, R, register) ==
    LET reg_addr == ToBeBytes16(Id(R))
        value == to_bytes(R, register)
    IN  IF value.tag # "Ok"
        THEN [i2c |-> self.i2c, awaits |-> FALSE, result |-> SerializationError]
        ELSE [i2c |-> Append(self.i2c,
                             [op |-> "transaction", address |-> self.address,
                              operations |-> <<Write(reg_addr), Write(value.val)>>]),
              awaits |-> TRUE]

\* Device::write_register_async from its `.await` on.
write_register_async_resume(outcome) ==
    [result |-> IF outcome = "ok" THEN OkUnit ELSE BusError]

(***************************************************************************)
(* The inputs the state machine draws from.                                *)
(***************************************************************************)
\* The most calls one run makes on the Device: in Spec, on the registers of
\* SeqRegisters; in SpecAll, on any register.
MaxCalls == 2
MaxCallsAll == 1

\* The most polls of one async call that the transport's future answers with
\* Pending before it is ready.
MaxPending == 2

\* The registers Spec draws from: the read-only ones whose decoding can fail
\* or abort and one that always decodes, a register whose encoding validates
\* and two whose encoding always succeeds, of 1 and of 4 bytes.  SpecAll calls
\* every register.
SeqRegisters ==
    {"ModelId", "ModuleTimestamp", "RangeResultStatus", "RangeStart",
     "RangeThresholds", "AlsIntermeasurementPeriod"}

\* A call some other driver made on the bus before the handle was given away.
ForeignCall == [op |-> "write_read", address |-> 16, out |-> <<0>>, read_len |-> 1]

\* The handles a caller may build a Device from: fresh, or used before.
InitialHandles == {<<>>, <<ForeignCall>>}

\* Peripheral addresses given to new_with_address.
Addresses == {82}

\* Payloads the device may answer a read with.
RxSamples(R) ==
    CASE R = "ModuleTimestamp" ->
            {<<54, 120, 168, 192>>, <<15, 8, 27, 188>>, <<54, 120, 128, 0>>}
      [] R = "RangeResultStatus" -> {<<1>>, <<144>>, <<161>>, <<176>>}
      [] R = "ResultAlsStatus" -> {<<1>>, <<48>>}
      [] R \in {"RangeStart", "AlsStart"} -> {<<0>>, <<3>>}
      [] R = "ModelId" -> {<<180>>, <<7>>}
      [] FromArrayLen(R) = 1 -> {<<255>>}
      [] FromArrayLen(R) = 2 -> {<<18, 52>>}
      [] OTHER -> {<<0, 200, 0, 10>>}

\* The payloads of RxSamples that R::from_bytes rejects.
RejectedSamples(R) == {b \in RxSamples(R) : from_bytes(R, b, FALSE).tag = "Err"}

\* What the bus may do with a write_read: succeed with a payload, or fail
\* leaving the buffer untouched or holding a partial or garbage payload.
ReadOutcomes(R) ==
    {[ok |-> TRUE, buf |-> b] : b \in RxSamples(R)}
    \cup {[ok |-> FALSE, buf |-> b] :
            b \in {ArrayNew(FromArrayLen(R))} \cup RejectedSamples(R)}

\* What the bus may do with a two-frame transaction.
WriteOutcomes == {"ok", "fail_frame1", "fail_frame2"}

\* Register values a caller may write.
WriteSamples(R) ==
    CASE R \in {"ModeGpio0", "ModeGpio1"} ->
            {[function |-> "InterruptOutput", polarity |-> "ActiveLow"]}
      [] R = "HistoryCtrl" -> {[enable |-> TRUE, clear |-> FALSE]}
      [] R = "InterruptConfigGpio" ->
            {[range_interrupt |-> "NewSampleReady", als_interrupt |-> "LevelLow"]}
      [] R = "InterruptClear" ->
            {[clear_range |-> TRUE, clear_als |-> TRUE, clear_error |-> TRUE]}
      [] R = "FreshOutOfReset" -> {[fresh |-> FALSE]}
      [] R = "GroupedParameterHold" -> {[hold |-> TRUE]}
      [] R \in {"RangeStart", "AlsStart"} -> {[mode |-> "Continuous"]}
      [] R = "RangeThresholds" -> {[high_mm |-> 200, low_mm |-> 10]}
      [] R = "RangeIntermeasurementPeriod" -> {[span_ms |-> m] : m \in {9, 100, 2561}}
      [] R = "RangeMaxConvergenceTime" -> {[span_ms |-> m] : m \in {0, 30, 64}}
      [] R = "RangeCrosstalkCompensationRate" -> {[rate |-> 4660]}
      [] R = "RangeCrosstalkValidHeight" -> {[height_mm |-> 20]}
      [] R = "RangeEarlyConvergenceEstimate" -> {[estimate |-> 255]}
      [] R = "RangeCheckEnables" ->
            {[enable_snr_check |-> TRUE, enable_range_check |-> FALSE,
              enable_early_convergence_check |-> TRUE]}
      [] R = "RangeVhvRecalibrate" -> {[recalibrate |-> 1]}
      [] R = "RangeVhvRepeatRate" -> {[repeat_rate |-> 255]}
      [] R = "AlsThresholds" -> {[high_lux |-> 1000, low_lux |-> 5]}
      [] R = "AlsIntermeasurementPeriod" ->
            {[period |-> DurationMs(m)] : m \in {9, 10, 2560, 2561}}
      [] R = "AlsAnalogueGain" -> {[gain |-> "Gain1"]}
      [] R = "AlsIntegrationPeriod" ->
            {[period |-> DurationMs(m)] : m \in {0, 1, 255, 256}}

(***************************************************************************)
(* The state: who holds the transport handle, the Device's two fields, the *)
(* suspended async call if any, and a record of the last call made.        *)
(***************************************************************************)
VARIABLES
    phase,            \* "unbuilt", "live", "released" or "aborted" (after a panic)
    caller_i2c,       \* the handle while the caller holds it
    self,             \* the Device: [i2c, address]
    given,            \* how the Device was built: the handle, constructor, address
    pending,          \* the async call suspended at its .await, and how often so far
    last,             \* the last call ended: its arguments, bus outcome and result
    counts,           \* calls made so far: reads, writes, writes that encoded
    overflow_checks,  \* the build: "either" until a run depends on it
    codec             \* the last codec function applied on its own

vars == <<phase, caller_i2c, self, given, pending, last, counts, overflow_checks, codec>>

NoDevice == [i2c |-> <<>>, address |-> 0]
NoCall == [op |-> "none"]
NoCodec == [fn |-> "none"]
NotBuilt == [i2c |-> <<>>, ctor |-> "none", address |-> 0]

Init ==
    /\ phase = "unbuilt"
    /\ caller_i2c \in InitialHandles
    /\ self = NoDevice
    /\ given = NotBuilt
    /\ pending = NoCall
    /\ last = NoCall
    /\ counts = [reads |-> 0, writes |-> 0, encoded |-> 0]
    /\ overflow_checks = "either"
    /\ codec = NoCodec

Calls == counts.reads + counts.writes

CanCall(budget) == phase = "live" /\ pending.op = "none" /\ Calls < budget

\* The builds a run may still be: its overflow checks on (TRUE) or off.
Builds ==
    CASE overflow_checks = "on" -> {TRUE}
      [] overflow_checks = "off" -> {FALSE}
      [] OTHER -> {TRUE, FALSE}

\* A read of R with payload bytes depends on the build.
DependsOnBuild(R, outcome) ==
    outcome.ok /\ from_bytes(R, outcome.buf, TRUE) # from_bytes(R, outcome.buf, FALSE)

BuildAfter(R, outcome, oc) ==
    IF DependsOnBuild(R, outcome) THEN (IF oc THEN "on" ELSE "off") ELSE overflow_checks

PhaseAfter(result) == IF result.tag = "Panic" THEN "aborted" ELSE "live"

New ==
    /\ phase = "unbuilt"
    /\ self' = new(caller_i2c)
    /\ given' = [i2c |-> caller_i2c, ctor |-> "new", address |-> DEFAULT_ADDRESS]
    /\ caller_i2c' = <<>>
    /\ phase' = "live"
    /\ UNCHANGED <<pending, last, counts, overflow_checks, codec>>

NewWithAddress ==
    \E a \in Addresses :
        /\ phase = "unbuilt"
        /\ self' = new_with_address(caller_i2c, a)
        /\ given' = [i2c |-> caller_i2c, ctor |-> "new_with_address", address |-> a]
        /\ caller_i2c' = <<>>
        /\ phase' = "live"
        /\ UNCHANGED <<pending, last, counts, overflow_checks, codec>>

Release ==
    /\ phase = "live"
    /\ pending.op = "none"
    /\ caller_i2c' = release(self)
    /\ self' = NoDevice
    /\ phase' = "released"
    /\ UNCHANGED <<given, pending, last, counts, overflow_checks, codec>>

ReadRegister(Regs, budget) ==
    \E R \in Regs \cap ReadableRegisters : \E outcome \in ReadOutcomes(R) : \E oc \in Builds :
        LET r == read_register(self, R, outcome, oc)
        IN  /\ CanCall(budget)
            /\ self' = [self EXCEPT !.i2c = r.i2c]
            /\ last' = [op |-> "read_register", reg |-> R, outcome |-> outcome,
                        result |-> r.result, decoded |-> r.decoded,
                        pre |-> self.i2c, post |-> r.i2c, suspensions |-> 0]
            /\ counts' = [counts EXCEPT !.reads = @ + 1]
            /\ overflow_checks' = BuildAfter(R, outcome, oc)
            /\ phase' = PhaseAfter(r.result)
            /\ UNCHANGED <<caller_i2c, given, pending, codec>>

WriteRegister(Regs, budget) ==
    \E R \in Regs \cap WritableRegisters : \E register \in WriteSamples(R) :
      \E outcome \in WriteOutcomes :
        LET r == write_register(self, R, register, outcome)
        IN  /\ CanCall(budget)
            /\ self' = [self EXCEPT !.i2c = r.i2c]
            /\ last' = [op |-> "write_register", reg |-> R, register |-> register,
                        outcome |-> IF to_bytes(R, register).tag = "Ok"
                                    THEN outcome ELSE "none",
                        result |-> r.result, pre |-> self.i2c, post |-> r.i2c,
                        suspensions |-> 0]
            /\ counts' = [counts EXCEPT !.writes = @ + 1,
                                        !.encoded = @ + (IF to_bytes(R, register).tag = "Ok"
                                                         THEN 1 ELSE 0)]
            /\ UNCHANGED <<phase, caller_i2c, given, pending, overflow_checks, codec>>

\* The first poll of read_register_async: the call runs to its `.await` and
\* polls the transport's future, which is ready at once or is not.
ReadRegisterAsync(Regs, budget) ==
    \E R \in Regs \cap ReadableRegisters :
        LET c == read_register_async_call(self, R)
        IN  /\ CanCall(budget)
            /\ self' = [self EXCEPT !.i2c = c.i2c]
            /\ counts' = [counts EXCEPT !.reads = @ + 1]
            /\ \/ /\ MaxPending >= 1
                  /\ pending' = [op |-> "read_register_async", reg |-> R,
                                 pre |-> self.i2c, suspensions |-> 1]
                  /\ UNCHANGED <<phase, last, overflow_checks>>
               \/ \E outcome \in ReadOutcomes(R) : \E oc \in Builds :
                    LET r == read_register_async_resume(R, outcome, oc)
                    IN  /\ last' = [op |-> "read_register_async", reg |-> R,
                                    outcome |-> outcome, result |-> r.result,
                                    decoded |-> r.decoded, pre |-> self.i2c,
                                    post |-> c.i2c, suspensions |-> 0]
                        /\ overflow_checks' = BuildAfter(R, outcome, oc)
                        /\ phase' = PhaseAfter(r.result)
                        /\ UNCHANGED pending
            /\ UNCHANGED <<caller_i2c, given, codec>>

\* A later poll of read_register_async at which the transport's future is ready.
ReadRegisterAsyncResume ==
    /\ phase = "live"
    /\ pending.op = "read_register_async"
    /\ \E outcome \in ReadOutcomes(pending.reg) : \E oc \in Builds :
        LET R == pending.reg
            r == read_register_async_resume(R, outcome, oc)
        IN  /\ last' = [op |-> "read_register_async", reg |-> R, outcome |-> outcome,
                        result |-> r.result, decoded |-> r.decoded,
                        pre |-> pending.pre, post |-> self.i2c,
                        suspensions |-> pending.suspensions]
            /\ pending' = NoCall
            /\ overflow_checks' = BuildAfter(R, outcome, oc)
            /\ phase' = PhaseAfter(r.result)
            /\ UNCHANGED <<caller_i2c, self, given, counts, codec>>

\* The first poll of write_register_async: the call returns early, or runs to
\* its `.await` and polls the transport's future, which is ready at once or is
\* not.
WriteRegisterAsync(Regs, budget) ==
    \E R \in Regs \cap WritableRegisters : \E register \in WriteSamples(R) :
        LET c == write_register_async_call(self, R, register)
        IN  /\ CanCall(budget)
            /\ self' = [self EXCEPT !.i2c = c.i2c]
            /\ counts' = [counts EXCEPT !.writes = @ + 1,
                                        !.encoded = @ + (IF to_bytes(R, register).tag = "Ok"
                                                         THEN 1 ELSE 0)]
            /\ \/ /\ ~c.awaits
                  /\ last' = [op |-> "write_register_async", reg |-> R,
                              register |-> register, outcome |-> "none",
                              result |-> c.result, pre |-> self.i2c, post |-> c.i2c,
                              suspensions |-> 0]
                  /\ UNCHANGED pending
               \/ /\ c.awaits
                  /\ MaxPending >= 1
                  /\ pending' = [op |-> "write_register_async", reg |-> R,
                                 register |-> register, pre |-> self.i2c,
                                 suspensions |-> 1]
                  /\ UNCHANGED last
               \/ /\ c.awaits
                  /\ \E outcome \in WriteOutcomes :
                        last' = [op |-> "write_register_async", reg |-> R,
                                 register |-> register, outcome |-> outcome,
                                 result |-> write_register_async_resume(outcome).result,
                                 pre |-> self.i2c, post |-> c.i2c, suspensions |-> 0]
                  /\ UNCHANGED pending
            /\ UNCHANGED <<phase, caller_i2c, given, overflow_checks, codec>>

\* A later poll of write_register_async at which the transport's future is
\* ready.
WriteRegisterAsyncResume ==
    \E outcome \in WriteOutcomes :
        LET r == write_register_async_resume(outcome)
        IN  /\ phase = "live"
            /\ pending.op = "write_register_async"
            /\ last' = [op |-> "write_register_async", reg |-> pending.reg,
                        register |-> pending.register, outcome |-> outcome,
                        result |-> r.result, pre |-> pending.pre, post |-> self.i2c,
                        suspensions |-> pending.suspensions]
            /\ pending' = NoCall
            /\ UNCHANGED <<phase, caller_i2c, self, given, counts, overflow_checks, codec>>

\* A later poll of a suspended call at which the transport's future is still
\* not ready: the call suspends again, at the same `.await`.
PollPending ==
    /\ phase = "live"
    /\ pending.op # "none"
    /\ pending.suspensions < MaxPending
    /\ pending' = [pending EXCEPT !.suspensions = @ + 1]
    /\ UNCHANGED <<phase, caller_i2c, self, given, last, counts, overflow_checks, codec>>

\* The caller drops the future of a suspended call: the call ends without a
\* result, its exchange stays with the transport, and the Device can be called
\* again.
DropPending ==
    /\ phase = "live"
    /\ pending.op # "none"
    /\ pending' = NoCall
    /\ last' = [op |-> "dropped", call |-> pending.op, reg |-> pending.reg,
                pre |-> pending.pre, post |-> self.i2c,
                suspensions |-> pending.suspensions]
    /\ UNCHANGED <<phase, caller_i2c, self, given, counts, overflow_checks, codec>>

Next ==
    \/ New
    \/ NewWithAddress
    \/ Release
    \/ ReadRegister(SeqRegisters, MaxCalls)
    \/ WriteRegister(SeqRegisters, MaxCalls)
    \/ ReadRegisterAsync(SeqRegisters, MaxCalls)
    \/ ReadRegisterAsyncResume
    \/ WriteRegisterAsync(SeqRegisters, MaxCalls)
    \/ WriteRegisterAsyncResume
    \/ PollPending
    \/ DropPending

\* Sequences of calls on the registers of SeqRegisters.
Spec == Init /\ [][Next]_vars

\* SpecAll starts from an unused handle and builds the Device with new: the
\* handles used before and new_with_address are Spec's.
InitAll == Init /\ caller_i2c = <<>>

NextAll ==
    \/ New
    \/ Release
    \/ ReadRegister(Registers, MaxCallsAll)
    \/ WriteRegister(Registers, MaxCallsAll)
    \/ ReadRegisterAsync(Registers, MaxCallsAll)
    \/ ReadRegisterAsyncResume
    \/ WriteRegisterAsync(Registers, MaxCallsAll)
    \/ WriteRegisterAsyncResume
    \/ PollPending
    \/ DropPending

\* Calls on every register.
SpecAll == InitAll /\ [][NextAll]_vars

(***************************************************************************)
(* Properties of the Device (src/src/device.rs).                           *)
(***************************************************************************)
\* The handle's log, wherever the handle is.
HandleLog == IF phase \in {"unbuilt", "released"} THEN caller_i2c ELSE self.i2c

\* The transport calls the Device has issued: the log past what the handle
\* held when the Device was built.
DeviceCalls ==
    IF phase = "unbuilt" THEN <<>>
    ELSE SubSeq(HandleLog, Len(given.i2c) + 1, Len(HandleLog))

IsWrite(c) == c.op \in {"write_register", "write_register_async"}
IsRead(c) == c.op \in {"read_register", "read_register_async"}
Encodes(c) == to_bytes(c.reg, c.register).tag = "Ok"

\* The address frame: the 16-bit register address, most significant byte first.
AddressFrame(R) == <<Id(R) \div 256, Id(R) % 256>>

\* C1: a write (blocking or async) whose value fails to encode returns
\* SerializationError and leaves the transport's call log exactly as it was.
FailFastEncode ==
    (IsWrite(last) /\ ~Encodes(last)) =>
        /\ last.result = SerializationError
        /\ last.post = last.pre

\* C1 witness: after an earlier call of the Device, a write of a 2561 ms ALS
\* intermeasurement period has failed to encode.
FailFastEncodeWitness ==
    /\ IsWrite(last)
    /\ last.reg = "AlsIntermeasurementPeriod"
    /\ last.register = [period |-> DurationMs(2561)]
    /\ last.result = SerializationError
    /\ Len(last.pre) > Len(given.i2c)

\* C2: a write whose value encodes hands the transport exactly one transaction
\* holding both frames, address frame first; no transaction the Device issues
\* carries the address frame alone; and a failure on the second frame is
\* returned as BusError.
WriteAtomicity ==
    /\ (IsWrite(last) /\ Encodes(last)) =>
          /\ Len(last.post) = Len(last.pre) + 1
          /\ SubSeq(last.post, 1, Len(last.pre)) = last.pre
          /\ LET c == last.post[Len(last.post)]
             IN  /\ c.op = "transaction"
                 /\ Len(c.operations) = 2
                 /\ c.operations[1] = Write(AddressFrame(last.reg))
                 /\ c.operations[2].kind = "Write"
          /\ (last.outcome = "fail_frame2" => last.result = BusError)
    /\ \A i \in 1..Len(DeviceCalls) :
          DeviceCalls[i].op = "transaction" => Len(DeviceCalls[i].operations) = 2

\* C2 witness: the bus has failed on the payload frame of a write and the
\* write has returned BusError.
WriteAtomicityWitness ==
    /\ IsWrite(last)
    /\ Encodes(last)
    /\ last.outcome = "fail_frame2"
    /\ last.result = BusError

\* C3: for every writable register and every value that encodes, write_register
\* issues one transaction of exactly two Write operations: the two bytes of the
\* register address, most significant first, then exactly the bytes of to_bytes,
\* as many as the register's payload length; it returns Ok exactly when the
\* transport succeeds and BusError exactly when it fails.
WriteFraming ==
    (last.op = "write_register" /\ Encodes(last)) =>
        /\ last.post = Append(last.pre,
                [op |-> "transaction",
                 address |-> given.address,
                 operations |-> <<Write(AddressFrame(last.reg)),
                                  Write(to_bytes(last.reg, last.register).val)>>])
        /\ Len(last.post[Len(last.post)].operations[1].bytes) = 2
        /\ Len(last.post[Len(last.post)].operations[2].bytes) = ToArrayLen(last.reg)
        /\ (last.result = OkUnit <=> last.outcome = "ok")
        /\ (last.result = BusError <=> last.outcome # "ok")

\* C3 witness: a 4-byte RangeThresholds write has gone out and returned Ok.
WriteFramingWitness ==
    /\ last.op = "write_register"
    /\ last.reg = "RangeThresholds"
    /\ last.outcome = "ok"
    /\ last.result = OkUnit
    /\ last.post[Len(last.post)].operations = <<Write(<<0, 25>>), Write(<<0, 200, 0, 10>>)>>

\* C4: for every readable register a read (blocking or async) performs exactly
\* one write_read whose outgoing bytes are the register address, big-endian, and
\* whose buffer has the register's payload length (1, 2 or 4); when the exchange
\* succeeds the result is from_bytes of exactly the bytes the transport placed
\* in the buffer.
ReadFraming ==
    IsRead(last) =>
        /\ last.post = Append(last.pre,
                [op |-> "write_read",
                 address |-> given.address,
                 out |-> AddressFrame(last.reg),
                 read_len |-> FromArrayLen(last.reg)])
        /\ FromArrayLen(last.reg) \in {1, 2, 4}
        /\ Len(last.outcome.buf) = FromArrayLen(last.reg)
        /\ last.outcome.ok =>
              \E oc \in Builds :
                  LET d == from_bytes(last.reg, last.outcome.buf, oc)
                  IN  IF d.tag = "Err" THEN last.result = DeserializationError
                                       ELSE last.result = d

\* C4 witness: a read of the 2-byte AlsResultValue has returned the value of
\* the two bytes the device answered.
ReadFramingWitness ==
    /\ IsRead(last)
    /\ last.reg = "AlsResultValue"
    /\ last.outcome = [ok |-> TRUE, buf |-> <<18, 52>>]
    /\ last.result = Ok([raw_count |-> 4660])

\* C5: a read returns BusError exactly when the transport failed, and then the
\* payload is never decoded; it returns DeserializationError exactly when the
\* transport succeeded and from_bytes rejected the payload; no read returns
\* SerializationError and no write returns DeserializationError.
ReadErrorClassification ==
    /\ IsRead(last) =>
          /\ (last.result = BusError <=> ~last.outcome.ok)
          /\ (~last.outcome.ok => ~last.decoded)
          /\ (last.result = DeserializationError <=>
                (last.outcome.ok /\ \E oc \in Builds :
                    from_bytes(last.reg, last.outcome.buf, oc).tag = "Err"))
          /\ last.result # SerializationError
    /\ IsWrite(last) => last.result # DeserializationError

\* C5 witness: a RangeResultStatus payload with high nibble 9 arrived over a
\* working bus and the read returned DeserializationError.
ReadErrorClassificationWitness ==
    /\ IsRead(last)
    /\ last.reg = "RangeResultStatus"
    /\ last.outcome = [ok |-> TRUE, buf |-> <<144>>]
    /\ last.result = DeserializationError

\* C6: no call makes more than one transport call; the transport calls the
\* Device has issued number the reads plus the writes whose value encoded; and
\* a call the transport fails returns BusError having made that one call only.
NoRetries ==
    /\ Len(DeviceCalls) = counts.reads + counts.encoded
    /\ (IsRead(last) \/ IsWrite(last)) =>
          /\ Len(last.post) - Len(last.pre) <= 1
          /\ SubSeq(last.post, 1, Len(last.pre)) = last.pre
    /\ (IsRead(last) /\ ~last.outcome.ok) =>
          (last.result = BusError /\ Len(last.post) = Len(last.pre) + 1)
    /\ (IsWrite(last) /\ last.outcome \in {"fail_frame1", "fail_frame2"}) =>
          (last.result = BusError /\ Len(last.post) = Len(last.pre) + 1)

\* C6 witness: after a write that did not encode, a read has failed on the bus:
\* two calls, one transport call.
NoRetriesWitness ==
    /\ counts = [reads |-> 1, writes |-> 1, encoded |-> 0]
    /\ IsRead(last)
    /\ last.result = BusError
    /\ Len(DeviceCalls) = 1

\* C7: a Device built with new holds address 0x29 and one built with
\* new_with_address(a) holds a; the stored address never changes, and every
\* transport call the Device issues carries it.
AddressFixed ==
    /\ (given.ctor = "new" => given.address = 41)
    /\ (phase \in {"live", "aborted"} => self.address = given.address)
    /\ \A i \in 1..Len(DeviceCalls) : DeviceCalls[i].address = given.address

\* C7 witness: a Device built with new_with_address(0x52) has made two
\* transport calls, the second of them failed.
AddressFixedWitness ==
    /\ given.ctor = "new_with_address"
    /\ given.address = 82
    /\ phase = "live"
    /\ self.address = 82
    /\ Len(DeviceCalls) = 2
    /\ last.result = BusError

\* C8: construction makes no transport call, release makes none, and release
\* returns the handle given at construction with the calls of the reads and
\* writes in between added to it and nothing else.
PureWrapper ==
    /\ (phase = "live" /\ Calls = 0) => self.i2c = given.i2c
    /\ phase = "released" =>
          /\ Len(caller_i2c) = Len(given.i2c) + counts.reads + counts.encoded
          /\ SubSeq(caller_i2c, 1, Len(given.i2c)) = given.i2c
          /\ (Calls = 0 => caller_i2c = given.i2c)
          /\ (Calls > 0 => caller_i2c = last.post)

\* C8 witness: a handle that had been used before was wrapped, read and
\* written through, and released.
PureWrapperWitness ==
    /\ phase = "released"
    /\ given.i2c = <<ForeignCall>>
    /\ counts = [reads |-> 1, writes |-> 1, encoded |-> 1]
    /\ Len(caller_i2c) = 3

(***************************************************************************)
(* The codecs on their own: one to_bytes or from_bytes applied to an input *)
(* drawn at the start.                                                     *)
(***************************************************************************)
\* The longest duration, in milliseconds, given to an encoder, and how far
\* below zero a Span goes.
MaxMs == 2600
MaxNegMs == 20

DurationRegisters == {"AlsIntermeasurementPeriod", "AlsIntegrationPeriod"}
SpanRegisters == {"RangeIntermeasurementPeriod", "RangeMaxConvergenceTime"}

\* The largest whole magnitude (millimetres, lux counts, raw 16-bit values)
\* given to an encoder, every one below it being given too.
MaxWhole == 1100

\* Magnitudes past MaxWhole given as well: the top of the 16-bit field and
\* values around it.
EdgeWholes == {32767, 32768, 65526, 65535}

Wholes == (0..MaxWhole) \cup EdgeWholes

InterruptModes == {InterruptModeName[i] : i \in 1..5}
AlsGains == {AlsGainName[i] : i \in 1..8}

\* Values given to to_bytes.  For a Duration, every whole millisecond up to
\* MaxMs, and the same again past 2^64 ms; for a Span, every whole millisecond
\* from -MaxNegMs to MaxMs; every variant of an enum, every combination of
\* flags, every byte of a one-byte field; the magnitudes of Wholes for a
\* 16-bit field, one field at a time for a pair.
EncodeInputs(R) ==
    CASE R \in DurationRegisters ->
            {[period |-> Millis(hi, lo)] : hi \in {0, 1}, lo \in 0..MaxMs}
      [] R \in SpanRegisters -> {[span_ms |-> m] : m \in (-MaxNegMs)..MaxMs}
      [] R \in {"ModeGpio0", "ModeGpio1"} ->
            {[function |-> f, polarity |-> q] :
                f \in {"Off", "InterruptOutput"}, q \in {"ActiveLow", "ActiveHigh"}}
      [] R = "HistoryCtrl" -> {[enable |-> e, clear |-> c] : e \in BOOLEAN, c \in BOOLEAN}
      [] R = "InterruptConfigGpio" ->
            {[range_interrupt |-> r, als_interrupt |-> a] :
                r \in InterruptModes, a \in InterruptModes}
      [] R = "InterruptClear" ->
            {[clear_range |-> r, clear_als |-> a, clear_error |-> e] :
                r \in BOOLEAN, a \in BOOLEAN, e \in BOOLEAN}
      [] R = "FreshOutOfReset" -> {[fresh |-> f] : f \in BOOLEAN}
      [] R = "GroupedParameterHold" -> {[hold |-> h] : h \in BOOLEAN}
      [] R \in {"RangeStart", "AlsStart"} ->
            {[mode |-> m] : m \in {"SingleShot", "Continuous"}}
      [] R = "RangeThresholds" ->
            {[high_mm |-> h, low_mm |-> 10] : h \in Wholes}
            \cup {[high_mm |-> 200, low_mm |-> l] : l \in Wholes}
      [] R = "RangeCrosstalkCompensationRate" -> {[rate |-> x] : x \in Wholes}
      [] R = "RangeCrosstalkValidHeight" -> {[height_mm |-> x] : x \in Byte}
      [] R = "RangeEarlyConvergenceEstimate" -> {[estimate |-> x] : x \in Wholes}
      [] R = "RangeCheckEnables" ->
            {[enable_snr_check |-> a, enable_range_check |-> b,
              enable_early_convergence_check |-> c] :
                a \in BOOLEAN, b \in BOOLEAN, c \in BOOLEAN}
      [] R = "RangeVhvRecalibrate" -> {[recalibrate |-> x] : x \in Byte}
      [] R = "RangeVhvRepeatRate" -> {[repeat_rate |-> x] : x \in Byte}
      [] R = "AlsThresholds" ->
            {[high_lux |-> h, low_lux |-> 5] : h \in Wholes}
            \cup {[high_lux |-> 1000, low_lux |-> l] : l \in Wholes}
      [] R = "AlsAnalogueGain" -> {[gain |-> g] : g \in AlsGains}

\* Payloads given to from_bytes: every byte for a one-byte register; for
\* ModuleTimestamp every pair of date bytes at one time of day, and at one
\* date every high byte of the tick count with a few low bytes.
DecodeInputs(R) ==
    CASE FromArrayLen(R) = 1 -> {<<b>> : b \in Byte}
      [] R = "ModuleTimestamp" ->
            {<<date_hi, date_lo, 84, 96>> : date_hi \in Byte, date_lo \in Byte}
            \cup {<<54, 120, time_hi, time_lo>> :
                    time_hi \in Byte, time_lo \in {0, 96, 188, 192, 255}}
            \cup RxSamples(R)
      [] OTHER -> RxSamples(R)

\* What the bus may answer a read made on its own: for a one-byte register
\* every byte, with the exchange succeeding or failing; for the others the
\* outcomes of ReadOutcomes.
DecodeOutcomes(R) ==
    IF FromArrayLen(R) = 1
    THEN {[ok |-> ok, buf |-> <<b>>] : ok \in BOOLEAN, b \in Byte}
    ELSE ReadOutcomes(R)

InitCodec ==
    /\ phase = "unbuilt"
    /\ caller_i2c = <<>>
    /\ self = NoDevice
    /\ given = NotBuilt
    /\ pending = NoCall
    /\ last = NoCall
    /\ counts = [reads |-> 0, writes |-> 0, encoded |-> 0]
    /\ overflow_checks = "either"
    /\ \/ \E R \in WritableRegisters : \E v \in EncodeInputs(R) :
            codec = [fn |-> "to_bytes", reg |-> R, input |-> v, done |-> FALSE]
       \/ \E R \in ReadableRegisters : \E b \in DecodeInputs(R) :
            codec = [fn |-> "from_bytes", reg |-> R, input |-> b, done |-> FALSE]
       \/ \E T \in TryFromTypes : \E value \in Byte :
            codec = [fn |-> "try_from", type |-> T, input |-> value, done |-> FALSE]
       \/ \E R \in ReadableRegisters : \E outcome \in DecodeOutcomes(R) :
            codec = [fn |-> "read_register", reg |-> R, input |-> outcome,
                     done |-> FALSE]

ApplyToBytes ==
    /\ codec.fn = "to_bytes"
    /\ ~codec.done
    /\ codec' = [fn |-> "to_bytes", reg |-> codec.reg, input |-> codec.input,
                 done |-> TRUE, out |-> to_bytes(codec.reg, codec.input)]
    /\ UNCHANGED <<phase, caller_i2c, self, given, pending, last, counts, overflow_checks>>

ApplyFromBytes ==
    /\ codec.fn = "from_bytes"
    /\ ~codec.done
    /\ \E oc \in Builds :
        /\ codec' = [fn |-> "from_bytes", reg |-> codec.reg, input |-> codec.input,
                     done |-> TRUE, out |-> from_bytes(codec.reg, codec.input, oc)]
        /\ overflow_checks' =
              BuildAfter(codec.reg, [ok |-> TRUE, buf |-> codec.input], oc)
    /\ UNCHANGED <<phase, caller_i2c, self, given, pending, last, counts>>

\* R::from_bytes applied to the bytes to_bytes returned.
ApplyRoundTrip ==
    /\ codec.fn = "to_bytes"
    /\ codec.done
    /\ codec.out.tag = "Ok"
    /\ \E oc \in Builds :
        codec' = [fn |-> "round_trip", reg |-> codec.reg, input |-> codec.input,
                  done |-> TRUE, out |-> codec.out,
                  back |-> from_bytes(codec.reg, codec.out.val, oc)]
    /\ UNCHANGED <<phase, caller_i2c, self, given, pending, last, counts, overflow_checks>>

\* T::try_from(value) on its own.
ApplyTryFrom ==
    /\ codec.fn = "try_from"
    /\ ~codec.done
    /\ codec' = [fn |-> "try_from", type |-> codec.type, input |-> codec.input,
                 done |-> TRUE, out |-> try_from(codec.type, codec.input)]
    /\ UNCHANGED <<phase, caller_i2c, self, given, pending, last, counts, overflow_checks>>

\* Device::read_register on a Device just built on an unused handle.
ApplyReadRegister ==
    /\ codec.fn = "read_register"
    /\ ~codec.done
    /\ \E oc \in Builds :
        LET r == read_register(new(<<>>), codec.reg, codec.input, oc)
        IN  /\ codec' = [fn |-> "read_register", reg |-> codec.reg,
                         input |-> codec.input, done |-> TRUE,
                         out |-> r.result, i2c |-> r.i2c]
            /\ overflow_checks' = BuildAfter(codec.reg, codec.input, oc)
    /\ UNCHANGED <<phase, caller_i2c, self, given, pending, last, counts>>

\* R::to_bytes applied to the value from_bytes returned.
ApplyReencode ==
    /\ codec.fn = "from_bytes"
    /\ codec.done
    /\ codec.reg \in WritableRegisters
    /\ codec.out.tag = "Ok"
    /\ codec' = [fn |-> "reencode", reg |-> codec.reg, input |-> codec.input,
                 done |-> TRUE, out |-> codec.out,
                 again |-> to_bytes(codec.reg, codec.out.val)]
    /\ UNCHANGED <<phase, caller_i2c, self, given, pending, last, counts, overflow_checks>>

NextCodec ==
    \/ ApplyToBytes
    \/ ApplyFromBytes
    \/ ApplyRoundTrip
    \/ ApplyReencode
    \/ ApplyTryFrom
    \/ ApplyReadRegister

SpecCodec == InitCodec /\ [][NextCodec]_vars

(***************************************************************************)
(* Properties of the duration encoders.                                    *)
(***************************************************************************)
Encoded(R) == codec.fn = "to_bytes" /\ codec.done /\ codec.reg = R

\* The duration given to a duration encoder is exactly ms milliseconds.
InputIsMs(ms) ==
    IF codec.reg \in DurationRegisters
    THEN codec.input.period = DurationMs(ms)
    ELSE codec.input.span_ms = ms

\* The duration given lies outside what the register's byte can hold: outside
\* 10 ms..2560 ms for the 10 ms registers, outside 0 ms..255 ms for the 1 ms
\* registers.
OutOfRange ==
    CASE codec.reg = "AlsIntermeasurementPeriod" ->
            codec.input.period.hi > 0 \/ codec.input.period.lo < 10
                \/ codec.input.period.lo > 2560
      [] codec.reg = "AlsIntegrationPeriod" ->
            codec.input.period.hi > 0 \/ codec.input.period.lo > 255
      [] codec.reg = "RangeIntermeasurementPeriod" ->
            codec.input.span_ms < 10 \/ codec.input.span_ms > 2560
      [] codec.reg = "RangeMaxConvergenceTime" ->
            codec.input.span_ms < 0 \/ codec.input.span_ms > 255

\* C9: encoding an intermeasurement period of 10 ms gives byte 0x00, of 2560 ms
\* byte 0xFF, of 9 ms fails with DurationTooShort and of 2561 ms fails with
\* DurationTooLong, for the ALS and the range register alike.
QuantizedPeriodBoundary ==
    (Encoded("AlsIntermeasurementPeriod") \/ Encoded("RangeIntermeasurementPeriod")) =>
        /\ (InputIsMs(10) => codec.out = Ok(<<0>>))
        /\ (InputIsMs(2560) => codec.out = Ok(<<255>>))
        /\ (InputIsMs(9) => codec.out = Err(DurationTooShort))
        /\ (InputIsMs(2561) => codec.out = Err(DurationTooLong))

\* C10: every duration register's encoder fails with DurationTooShort or
\* DurationTooLong on a duration its byte cannot hold; none is clamped,
\* truncated or wrapped into a byte.
DurationRangeChecked ==
    ((\E R \in DurationRegisters \cup SpanRegisters : Encoded(R)) /\ OutOfRange) =>
        /\ codec.out.tag = "Err"
        /\ codec.out.err \in {DurationTooShort, DurationTooLong}

(***************************************************************************)
(* Properties of the codecs (src/src/registers/*.rs).                      *)
(***************************************************************************)
RoundTripped(R) == codec.fn = "round_trip" /\ codec.reg = R

\* The value given to the encoder lies in the range its register's payload
\* represents: a 16-bit or 8-bit whole magnitude that fits the field, a period
\* (b + 1) * 10 ms for a byte b, a whole-millisecond duration that fits the
\* byte; every enum variant and every combination of flags does.
Representable ==
    LET v == codec.input
        U16 == 0..65535
        Periods == {(b + 1) * 10 : b \in Byte}
    IN  CASE codec.reg = "RangeThresholds" -> v.high_mm \in U16 /\ v.low_mm \in U16
          [] codec.reg = "AlsThresholds" -> v.high_lux \in U16 /\ v.low_lux \in U16
          [] codec.reg = "RangeCrosstalkCompensationRate" -> v.rate \in U16
          [] codec.reg = "RangeEarlyConvergenceEstimate" -> v.estimate \in U16
          [] codec.reg = "RangeCrosstalkValidHeight" -> v.height_mm \in Byte
          [] codec.reg = "RangeVhvRecalibrate" -> v.recalibrate \in Byte
          [] codec.reg = "RangeVhvRepeatRate" -> v.repeat_rate \in Byte
          [] codec.reg = "RangeIntermeasurementPeriod" -> v.span_ms \in Periods
          [] codec.reg = "AlsIntermeasurementPeriod" ->
                v.period.hi = 0 /\ v.period.lo \in Periods
          [] codec.reg = "RangeMaxConvergenceTime" -> v.span_ms \in Byte
          [] codec.reg = "AlsIntegrationPeriod" ->
                v.period.hi = 0 /\ v.period.lo \in Byte
          [] OTHER -> TRUE

\* C11: for every writable register and every value in its representable
\* range, to_bytes succeeds and from_bytes of its bytes succeeds and returns
\* the value.
RoundTrip ==
    /\ ((\E R \in WritableRegisters : Encoded(R)) /\ Representable) =>
            codec.out.tag = "Ok"
    /\ ((\E R \in WritableRegisters : RoundTripped(R)) /\ Representable) =>
            codec.back = Ok(codec.input)

StartRegisters == {"RangeStart", "AlsStart"}

Decoded(R) == codec.fn = "from_bytes" /\ codec.done /\ codec.reg = R
ReadThrough(R) == codec.fn = "read_register" /\ codec.done /\ codec.reg = R

\* The mode a start-mode byte stands for.
StartMode(byte) ==
    CASE byte = 1 -> [mode |-> "SingleShot"]
      [] byte = 3 -> [mode |-> "Continuous"]
      [] OTHER -> [mode |-> "SingleShot"]

\* C12: from_bytes of RangeStart and of AlsStart returns a mode for each of the
\* 256 bytes, never an error: Continuous for 0x03, SingleShot for 0x01 and for
\* every other byte; so a read of either register through the Device returns
\* that mode whenever the exchange succeeds, and fails only with BusError.
StartModeFallback ==
    /\ (\E R \in StartRegisters : Decoded(R)) =>
            codec.out = Ok(StartMode(codec.input[1]))
    /\ (\E R \in StartRegisters : ReadThrough(R)) =>
            /\ codec.input.ok => codec.out = Ok(StartMode(codec.input.buf[1]))
            /\ codec.out.tag # "Ok" => (codec.out = BusError /\ ~codec.input.ok)

\* C12 witness: a read of RangeStart answered with byte 0x00 has returned
\* SingleShot.
StartModeFallbackWitness ==
    /\ ReadThrough("RangeStart")
    /\ codec.input = [ok |-> TRUE, buf |-> <<0>>]
    /\ codec.out = Ok([mode |-> "SingleShot"])

Converted(T) == codec.fn = "try_from" /\ codec.done /\ codec.type = T

\* C13: RangeErrorCode::try_from of 9 or 10 fails with InvalidEnumValue of that
\* value; RangeResultStatus::from_bytes fails exactly when the high nibble of
\* the byte is 9 or 10, and otherwise returns the error code whose value is the
\* high nibble and device_ready equal to bit 0.
StatusCodeStrictness ==
    /\ (Converted("RangeErrorCode") /\ codec.input \in {9, 10}) =>
            codec.out = Err(InvalidEnumValue(codec.input))
    /\ Decoded("RangeResultStatus") =>
            LET byte == codec.input[1]
                nibble == byte \div 16
            IN  /\ codec.out.tag = "Err" <=> nibble \in {9, 10}
                /\ codec.out.tag \in {"Ok", "Err"}
                /\ codec.out.tag = "Ok" =>
                      /\ RangeErrorCodeCode(codec.out.val.error_code) = nibble
                      /\ codec.out.val.device_ready = (byte % 2 = 1)

\* C13 witness: the status byte 0xA1 (nibble 10, ready bit set) has been
\* rejected.
StatusCodeStrictnessWitness ==
    /\ Decoded("RangeResultStatus")
    /\ codec.input = <<161>>
    /\ codec.out.tag = "Err"

(***************************************************************************)
(* Properties of ModuleTimestamp (src/src/registers/identification.rs).    *)
(***************************************************************************)
DateTime(year, month, day, hour, minute, second) ==
    [year |-> year, month |-> month, day |-> day,
     hour |-> hour, minute |-> minute, second |-> second]

\* C14, as stated: the payload [0x36, 0x78, 0xA8, 0xC0] (year offset 3, month 6,
\* day 15, 43200 ticks) decodes to 2013-06-15T12:00:00.
TimestampExample ==
    (Decoded("ModuleTimestamp") /\ codec.input = <<54, 120, 168, 192>>) =>
        codec.out = Ok(DateTime(2013, 6, 15, 12, 0, 0))

\* C14, amended: the payload [0x36, 0x78, 0x54, 0x60] (year offset 3, month 6,
\* day 15, 21600 ticks of 2 s) decodes to 2013-06-15T12:00:00.
TimestampMidday ==
    (Decoded("ModuleTimestamp") /\ codec.input = <<54, 120, 84, 96>>) =>
        codec.out = Ok(DateTime(2013, 6, 15, 12, 0, 0))

\* C14 witness: the payload of 21600 ticks has been decoded to a timestamp.
TimestampMiddayWitness ==
    /\ Decoded("ModuleTimestamp")
    /\ codec.input = <<54, 120, 84, 96>>
    /\ codec.out.tag = "Ok"
    /\ codec.out.val.hour = 12

\* The date the two date bytes of a ModuleTimestamp payload spell.
PayloadYear == 2010 + (codec.input[1] \div 16)
PayloadMonth == codec.input[1] % 16
PayloadDay == codec.input[2] \div 8
PayloadDateValid ==
    /\ PayloadMonth \in 1..12
    /\ PayloadDay >= 1
    /\ PayloadDay <= (CASE PayloadMonth \in {4, 6, 9, 11} -> 30
                        [] PayloadMonth = 2 ->
                              (IF PayloadYear \in {2012, 2016, 2020, 2024} THEN 29 ELSE 28)
                        [] OTHER -> 31)

\* C15: decoding a ModuleTimestamp payload takes the year from 2010 plus the
\* high nibble of byte 0, the month from its low nibble and the day from the
\* top 5 bits of byte 1, and fails with InvalidTimestamp exactly when that is
\* no date of the calendar; the payload [0x0F, 0x08, 0x1B, 0xBC] fails so.
TimestampDateValidation ==
    Decoded("ModuleTimestamp") =>
        /\ codec.out = Err(InvalidTimestamp) <=> ~PayloadDateValid
        /\ PayloadDateValid =>
              /\ codec.out.tag = "Ok"
              /\ codec.out.val.year = PayloadYear
              /\ codec.out.val.month = PayloadMonth
              /\ codec.out.val.day = PayloadDay
        /\ codec.input = <<15, 8, 27, 188>> => codec.out = Err(InvalidTimestamp)

\* The 16-bit tick count of a ModuleTimestamp payload.
PayloadTicks == codec.input[3] * 256 + codec.input[4]

\* C16: from_bytes of any register on any payload returns a value or a typed
\* error, never aborting; and a decoded ModuleTimestamp has the time of day
\* that lies 2 * ticks seconds after midnight, for every 16-bit tick count.
NoDecodePanic ==
    /\ (codec.fn = "from_bytes" /\ codec.done) => codec.out.tag \in {"Ok", "Err"}
    /\ (Decoded("ModuleTimestamp") /\ codec.out.tag = "Ok") =>
            codec.out.val.hour * 3600 + codec.out.val.minute * 60
                + codec.out.val.second = 2 * PayloadTicks

(***************************************************************************)
(* Properties of the two disciplines of the Device (src/src/device.rs).    *)
(***************************************************************************)
\* The Device as it was when the last call began.
DeviceBefore == [i2c |-> last.pre, address |-> given.address]

\* C17: a call under one discipline leaves the transport's log and returns the
\* result that the same call under the other discipline gives from the same
\* Device, for the same register, value and behaviour of the bus.
DisciplinesEquivalent ==
    /\ last.op = "read_register_async" =>
          \E oc \in Builds :
              LET b == read_register(DeviceBefore, last.reg, last.outcome, oc)
              IN  b.i2c = last.post /\ b.result = last.result
    /\ last.op = "read_register" =>
          \E oc \in Builds :
              LET c == read_register_async_call(DeviceBefore, last.reg)
                  r == read_register_async_resume(last.reg, last.outcome, oc)
              IN  c.i2c = last.post /\ c.awaits /\ r.result = last.result
    /\ last.op = "write_register_async" =>
          LET b == write_register(DeviceBefore, last.reg, last.register, last.outcome)
          IN  b.i2c = last.post /\ b.result = last.result
    /\ last.op = "write_register" =>
          LET c == write_register_async_call(DeviceBefore, last.reg, last.register)
              r == IF c.awaits THEN write_register_async_resume(last.outcome).result
                                  ELSE c.result
          IN  c.i2c = last.post /\ r = last.result

\* C17 witness: an async read of RangeResultStatus answered with the byte 0x90
\* has returned DeserializationError.
DisciplinesEquivalentWitness ==
    /\ last.op = "read_register_async"
    /\ last.reg = "RangeResultStatus"
    /\ last.outcome = [ok |-> TRUE, buf |-> <<144>>]
    /\ last.result = DeserializationError

\* C18, as stated: an async call that reaches the transport suspends exactly
\* once, with its single exchange handed to the transport, and completes on
\* resuming, with Ok, a decode error or BusError; an async write whose value
\* does not encode completes without suspending; a blocking call never
\* suspends.
SingleSuspension ==
    /\ last.op = "read_register_async" => last.suspensions = 1
    /\ last.op = "write_register_async" =>
          last.suspensions = (IF Encodes(last) THEN 1 ELSE 0)
    /\ last.op \in {"read_register", "write_register"} => last.suspensions = 0
    /\ pending.op # "none" =>
          /\ self.i2c = Append(pending.pre, self.i2c[Len(self.i2c)])
          /\ pending.op = "write_register_async" =>
                to_bytes(pending.reg, pending.register).tag = "Ok"
    /\ (IsWrite(last) /\ last.suspensions = 1) =>
          (last.result = OkUnit <=> last.outcome = "ok")
             /\ (last.result = BusError <=> last.outcome # "ok")

\* The last call ended was an async call, completed or dropped.
AsyncEnded ==
    last.op \in {"read_register_async", "write_register_async", "dropped"}

\* C18, amended: the await of the transport is the only point at which an
\* async call suspends.  A call that is suspended, or that has ended having
\* been suspended, has handed the transport its one exchange and nothing more,
\* however often the transport's future was not ready; a call whose exchange
\* is ready at the first poll completes without suspending; a completed call
\* returns BusError exactly when the transport failed; an async write whose
\* value does not encode completes without suspending and without an exchange;
\* a blocking call never suspends.
SingleSuspensionPoint ==
    /\ last.op \in {"read_register", "write_register"} => last.suspensions = 0
    /\ pending.op # "none" =>
          /\ pending.suspensions >= 1
          /\ self.i2c = Append(pending.pre, self.i2c[Len(self.i2c)])
          /\ pending.op = "write_register_async" =>
                to_bytes(pending.reg, pending.register).tag = "Ok"
    /\ AsyncEnded =>
          /\ last.suspensions >= 0
          /\ last.suspensions > 0 => last.post = Append(last.pre, last.post[Len(last.post)])
          /\ last.op = "dropped" => last.suspensions >= 1
    /\ (last.op = "write_register_async" /\ ~Encodes(last)) =>
          /\ last.suspensions = 0
          /\ last.post = last.pre
          /\ last.result = SerializationError
    /\ (last.op = "write_register_async" /\ Encodes(last)) =>
          /\ last.post = Append(last.pre, last.post[Len(last.post)])
          /\ (last.result = OkUnit <=> last.outcome = "ok")
          /\ (last.result = BusError <=> last.outcome # "ok")
    /\ last.op = "read_register_async" =>
          /\ last.post = Append(last.pre, last.post[Len(last.post)])
          /\ (last.result = BusError <=> ~last.outcome.ok)

\* C18 witness: an async read that the transport left pending twice has
\* completed with a value, one exchange on the log.
SingleSuspensionPointWitness ==
    /\ last.op = "read_register_async"
    /\ last.suspensions = 2
    /\ last.result.tag = "Ok"
    /\ Len(last.post) = Len(last.pre) + 1

(***************************************************************************)
(* Properties of the register map and of the Device's state.               *)
(***************************************************************************)
\* The device addresses a register's payload covers, one byte per address.
Footprint(R) == Id(R)..(Id(R) + FromArrayLen(R) - 1)

\* The device addresses the transaction of the last write stores to, on a
\* device that stores consecutive payload bytes at consecutive addresses.
WrittenAddresses ==
    LET c == last.post[Len(last.post)]
        base == FromBeBytes16(c.operations[1].bytes[1], c.operations[1].bytes[2])
    IN  base..(base + Len(c.operations[2].bytes) - 1)

\* C19: the payload ranges of two distinct registers are disjoint, so a write
\* of one register that the bus carries out stores to no address of any other
\* register.
IndependentlyWritable ==
    (IsWrite(last) /\ Encodes(last) /\ last.outcome = "ok") =>
        /\ WrittenAddresses = Footprint(last.reg)
        /\ \A R \in Registers \ {last.reg} : Footprint(R) \cap WrittenAddresses = {}

\* The transport calls of the Device that are reads.
ReadCalls == SelectSeq(DeviceCalls, LAMBDA c : c.op = "write_read")

\* C20: the Device holds its transport handle and its address and nothing
\* else; whatever calls came before, a read performs its own exchange and
\* returns what the register's decoder makes of the bytes of that exchange,
\* or BusError when that exchange failed; so as many exchanges are made as
\* reads.
NoCaching ==
    /\ DOMAIN self = {"i2c", "address"}
    /\ IsRead(last) =>
          /\ Len(last.post) = Len(last.pre) + 1
          /\ last.post[Len(last.post)].op = "write_read"
          /\ last.post[Len(last.post)].out = AddressFrame(last.reg)
          /\ \E oc \in Builds :
                last.result =
                    IF ~last.outcome.ok THEN BusError
                    ELSE LET d == from_bytes(last.reg, last.outcome.buf, oc)
                         IN  IF d.tag = "Err" THEN DeserializationError ELSE d
    /\ phase \in {"live", "released"} => Len(ReadCalls) = counts.reads

\* C20 witness: ModelId has been read twice in a row, each read with its own
\* exchange, and the second, answered with byte 0x07, has returned what that
\* byte decodes to.
NoCachingWitness ==
    /\ IsRead(last)
    /\ last.reg = "ModelId"
    /\ Len(DeviceCalls) = 2
    /\ DeviceCalls[1] = DeviceCalls[2]
    /\ DeviceCalls[1].op = "write_read"
    /\ last.outcome = [ok |-> TRUE, buf |-> <<7>>]
    /\ last.result = Ok([model |-> "Unknown", unknown |-> 7])


(***************************************************************************)
(* Properties of the quantized and clamped encoders, and of the codecs     *)
(* applied in the order from_bytes, then to_bytes.                         *)
(***************************************************************************)
Reencoded(R) == codec.fn = "reencode" /\ codec.reg = R

\* The multiple of 10 ms nearest to ms, a tie going up, capped at 2560 ms.
NearestTenMs(ms) ==
    LET below == ms - (ms % 10)
        nearest == IF 2 * (ms - below) >= 10 THEN below + 10 ELSE below
    IN  Min(nearest, 2560)

\* The period given to AlsIntermeasurementPeriod's encoder is a whole number
\* of milliseconds from 10 to 2560.
PeriodInRange ==
    /\ codec.reg = "AlsIntermeasurementPeriod"
    /\ codec.input.period.hi = 0
    /\ codec.input.period.lo \in 10..2560

\* C21: for every period of ms milliseconds with 10 <= ms <= 2560,
\* AlsIntermeasurementPeriod encodes to the byte floor((ms + 5) / 10) - 1, a
\* value in 0..255 before it is narrowed; decoding that byte gives the multiple
\* of 10 ms nearest to ms, ties up, capped at 2560 ms; and encoding the value
\* decoded from a byte b gives b, for every byte b.
QuantizedRounding ==
    /\ ((Encoded("AlsIntermeasurementPeriod") \/ RoundTripped("AlsIntermeasurementPeriod"))
            /\ PeriodInRange) =>
          LET ms == codec.input.period.lo
              value == ((ms + 5) \div 10) - 1
          IN  /\ value \in Byte
              /\ codec.out = Ok(<<value>>)
              /\ RoundTripped("AlsIntermeasurementPeriod") =>
                    codec.back = Ok([period |-> DurationMs(NearestTenMs(ms))])
    /\ Reencoded("AlsIntermeasurementPeriod") => codec.again = Ok(codec.input)

\* C21 witness: 2555 ms, a tie just below the top of the range, has encoded to
\* byte 255 and that byte has decoded to 2560 ms.
QuantizedRoundingWitness ==
    /\ RoundTripped("AlsIntermeasurementPeriod")
    /\ codec.input = [period |-> DurationMs(2555)]
    /\ codec.out = Ok(<<255>>)
    /\ codec.back = Ok([period |-> DurationMs(2560)])


\* C22: RangeMaxConvergenceTime's encoder never fails and maps a time of ms
\* milliseconds to the byte min(max(ms, 1), 63); its decoder maps a byte b to
\* exactly b ms, for every byte; so encoding the value decoded from b gives b
\* exactly for 1 <= b <= 63, gives 1 for b = 0 and gives 63 for every b > 63.
ConvergenceClamping ==
    /\ Encoded("RangeMaxConvergenceTime") =>
          LET ms == codec.input.span_ms
          IN  codec.out = Ok(<<IF ms < 1 THEN 1 ELSE IF ms > 63 THEN 63 ELSE ms>>)
    /\ (Decoded("RangeMaxConvergenceTime") \/ Reencoded("RangeMaxConvergenceTime")) =>
          codec.out = Ok([span_ms |-> codec.input[1]])
    /\ Reencoded("RangeMaxConvergenceTime") =>
          LET b == codec.input[1]
          IN  /\ codec.again.tag = "Ok"
              /\ (codec.again = Ok(<<b>>) <=> b \in 1..63)
              /\ (b = 0 => codec.again = Ok(<<1>>))
              /\ (b > 63 => codec.again = Ok(<<63>>))

\* C22 witness: byte 200 has decoded to 200 ms and that time has encoded to
\* byte 63.
ConvergenceClampingWitness ==
    /\ Reencoded("RangeMaxConvergenceTime")
    /\ codec.input = <<200>>
    /\ codec.out = Ok([span_ms |-> 200])
    /\ codec.again = Ok(<<63>>)


(***************************************************************************)
(* Properties of the bit-flag registers.                                   *)
(***************************************************************************)
FlagRegisters ==
    {"ModeGpio0", "ModeGpio1", "HistoryCtrl", "InterruptClear", "FreshOutOfReset",
     "GroupedParameterHold", "RangeCheckEnables"}

\* The bit of the payload byte that carries each flag of R.
FlagBit(R) ==
    CASE R \in {"ModeGpio0", "ModeGpio1"} -> [function |-> 4, polarity |-> 0]
      [] R = "HistoryCtrl" -> [enable |-> 0, clear |-> 1]
      [] R = "InterruptClear" -> [clear_range |-> 0, clear_als |-> 1, clear_error |-> 2]
      [] R = "FreshOutOfReset" -> [fresh |-> 0]
      [] R = "GroupedParameterHold" -> [hold |-> 0]
      [] R = "RangeCheckEnables" ->
            [enable_snr_check |-> 0, enable_range_check |-> 1,
             enable_early_convergence_check |-> 2]

\* The value of flag f of R when its bit is `set`: a bool, or for the GPIO
\* mode registers the variant the bit stands for.
FlagValue(R, f, set) ==
    CASE R \in {"ModeGpio0", "ModeGpio1"} /\ f = "function" ->
            IF set THEN "InterruptOutput" ELSE "Off"
      [] R \in {"ModeGpio0", "ModeGpio1"} /\ f = "polarity" ->
            IF set THEN "ActiveHigh" ELSE "ActiveLow"
      [] OTHER -> set

\* The byte whose set bits are exactly the bits of the flags of R that are
\* set in the value v.
RECURSIVE FlagByte(_, _, _)
FlagByte(R, v, n) ==
    IF n > 7 THEN 0
    ELSE (IF \E f \in DOMAIN FlagBit(R) :
                FlagBit(R)[f] = n /\ v[f] = FlagValue(R, f, TRUE)
          THEN Pow2(n) ELSE 0)
         + FlagByte(R, v, n + 1)

\* The value of R whose flags are the bits of byte b at the flags' positions.
FlagsOf(R, b) == [f \in DOMAIN FlagBit(R) |-> FlagValue(R, f, Bit(b, FlagBit(R)[f]))]

\* C23: in each bit-flag register every flag is carried by one bit of its own:
\* the encoded byte has exactly the bits of the set flags and no other bit, so
\* a flag changes only its own bit and every bit outside the flags' mask is 0;
\* decoding reads each flag from that same bit and ignores every other bit.
FlagBitPositions ==
    \A R \in FlagRegisters :
        /\ \A f, g \in DOMAIN FlagBit(R) : FlagBit(R)[f] = FlagBit(R)[g] => f = g
        /\ Encoded(R) => codec.out = Ok(<<FlagByte(R, codec.input, 0)>>)
        /\ (Decoded(R) \/ Reencoded(R)) => codec.out = Ok(FlagsOf(R, codec.input[1]))
        /\ Reencoded(R) =>
              /\ codec.again = Ok(<<FlagByte(R, FlagsOf(R, codec.input[1]), 0)>>)
              /\ \A n \in 0..7 :
                    Bit(codec.again.val[1], n) <=>
                        /\ Bit(codec.input[1], n)
                        /\ \E f \in DOMAIN FlagBit(R) : FlagBit(R)[f] = n

\* C23 witness: byte 0xFF has decoded for ModeGpio0 to an active-high interrupt
\* output and that value has encoded to 0x11, its two flag bits.
FlagBitPositionsWitness ==
    /\ Reencoded("ModeGpio0")
    /\ codec.input = <<255>>
    /\ codec.out = Ok([function |-> "InterruptOutput", polarity |-> "ActiveHigh"])
    /\ codec.again = Ok(<<17>>)


(***************************************************************************)
(* Properties of InterruptConfigGpio.                                      *)
(***************************************************************************)
\* The interrupt mode a 3-bit field stands for.
ModeOfField(x) ==
    CASE x = 0 -> "Disabled"
      [] x = 1 -> "LevelLow"
      [] x = 2 -> "LevelHigh"
      [] x = 3 -> "OutOfWindow"
      [] x = 4 -> "NewSampleReady"
      [] x \in 5..7 -> "Disabled"

RangeField(b) == (b \div 8) % 8
AlsField(b) == b % 8

\* C24: InterruptConfigGpio decodes every byte: the range mode from bits 3..5,
\* the ALS mode from bits 0..2, bits 6..7 ignored, a field of 5, 6 or 7 giving
\* Disabled; it encodes the range mode into bits 3..5 and the ALS mode into bits
\* 0..2 with bits 6..7 clear; so encoding the value decoded from b gives b
\* exactly when bits 6..7 of b are 0 and both fields are at most 4.
InterruptConfigCodec ==
    /\ (Decoded("InterruptConfigGpio") \/ Reencoded("InterruptConfigGpio")) =>
          LET b == codec.input[1]
          IN  codec.out = Ok([range_interrupt |-> ModeOfField(RangeField(b)),
                              als_interrupt |-> ModeOfField(AlsField(b))])
    /\ Encoded("InterruptConfigGpio") =>
          /\ codec.out.tag = "Ok"
          /\ LET e == codec.out.val[1]
             IN  /\ e < 64
                 /\ RangeField(e) <= 4 /\ ModeOfField(RangeField(e)) = codec.input.range_interrupt
                 /\ AlsField(e) <= 4 /\ ModeOfField(AlsField(e)) = codec.input.als_interrupt
    /\ Reencoded("InterruptConfigGpio") =>
          LET b == codec.input[1]
          IN  /\ codec.again.tag = "Ok"
              /\ codec.again = Ok(<<b>>) <=>
                    (b < 64 /\ RangeField(b) <= 4 /\ AlsField(b) <= 4)

\* C24 witness: byte 0xEF, whose fields hold 5 and 7 and whose top bits are
\* set, has decoded to two Disabled modes and that value has encoded to 0x00.
InterruptConfigCodecWitness ==
    /\ Reencoded("InterruptConfigGpio")
    /\ codec.input = <<239>>
    /\ codec.out = Ok([range_interrupt |-> "Disabled", als_interrupt |-> "Disabled"])
    /\ codec.again = Ok(<<0>>)


(***************************************************************************)
(* Properties of the payload lengths.                                      *)
(***************************************************************************)
PayloadLengths == {1, 2, 4}

\* The payload frame of the transaction a write has just issued.
PayloadSent == last.post[Len(last.post)].operations[2].bytes

\* The number of bytes the write_read of a read has just asked for.
LengthRequested == last.post[Len(last.post)].read_len

\* The array types of the two directions have one length for every register
\* that has both, and every array's length is 1, 2 or 4.
DeclaredLengthsAgree ==
    /\ \A R \in ReadableRegisters \cap WritableRegisters :
          FromArrayLen(R) = ToArrayLen(R)
    /\ \A R \in Registers : FromArrayLen(R) \in PayloadLengths
    /\ \A R \in WritableRegisters : ToArrayLen(R) \in PayloadLengths

\* C25: every register that is readable and writable has one payload length
\* for both directions: the bytes a write sends after the address frame are as
\* many as a read of the same register asks for, in the declared array types
\* and in the calls the Device makes; every register's length is 1, 2 or 4.
PayloadLengthAgreement ==
    /\ DeclaredLengthsAgree
    /\ (IsWrite(last) /\ Encodes(last)) =>
          /\ Len(PayloadSent) = FromArrayLen(last.reg)
          /\ Len(PayloadSent) \in PayloadLengths
    /\ IsRead(last) =>
          /\ LengthRequested \in PayloadLengths
          /\ last.reg \in WritableRegisters => LengthRequested = ToArrayLen(last.reg)
    /\ \A i, j \in 1..Len(DeviceCalls) :
          (/\ DeviceCalls[i].op = "transaction"
           /\ DeviceCalls[j].op = "write_read"
           /\ DeviceCalls[i].operations[1].bytes = DeviceCalls[j].out) =>
              Len(DeviceCalls[i].operations[2].bytes) = DeviceCalls[j].read_len

\* C25 witness: a write of AlsThresholds has sent a payload frame of 4 bytes,
\* as many as a read of AlsThresholds asks for.
PayloadLengthAgreementWitness ==
    /\ IsWrite(last)
    /\ last.reg = "AlsThresholds"
    /\ Encodes(last)
    /\ PayloadSent = <<3, 232, 0, 5>>
    /\ Len(PayloadSent) = Len(ArrayNew(FromArrayLen("AlsThresholds")))

====
